---- MODULE Spec2Model ----
(***************************************************************************)
(* Model of the offline-first journal, the sync engine, the front-end      *)
(* calls, the task fetch and the task model (parser, iCalendar codec,      *)
(* hierarchy) of cfait (Rustycal).                                         *)
(*                                                                         *)
(*   src/src/journal.rs   Journal: load, save, push, push_front, modify    *)
(*   src/src/client.rs    RustyClient: sync_journal, execute_move,         *)
(*                        create_task .. move_task, get_tasks,             *)
(*                        get_all_tasks, connect_with_fallback             *)
(*   src/src/storage.rs   LocalStorage: atomic_write, save, load           *)
(*                        (with_lock is not part of the sources at hand;   *)
(*                        it is modelled from the specification, section   *)
(*                        4.4)                                             *)
(*   src/src/cache.rs     Cache::load, Cache::load_calendars               *)
(*   src/src/model/adapter.rs   Task::to_ics, Task::from_ics,              *)
(*                        Task::respawn                                    *)
(*   src/src/model/parser.rs    Task::apply_smart_input, to_smart_string   *)
(*   src/src/bin/gui.rs   Message::IndentTask, Message::ToggleTask         *)
(*   src/src/gui/view/task_row.rs   the buttons of a row                   *)
(*                        (model/store.rs and model/item.rs are not part   *)
(*                        of the sources at hand; is_blocked and the depth *)
(*                        of organize_hierarchy are modelled from the      *)
(*                        specification, section 4.10)                     *)
(*                                                                         *)
(* The remote CalDAV server is the environment: a map from resource hrefs  *)
(* to (etag, body) with If-Match / If-None-Match / Overwrite:F semantics.  *)
(***************************************************************************)
EXTENDS Integers, Sequences, FiniteSets, TLC

(***************************************************************************)
(* Bounds                                                                  *)
(***************************************************************************)
\* longest journal the run starts from
MaxLen == 2
\* number of Uuid::new_v4() values one run may draw
MaxFresh == 2

(***************************************************************************)
(* Strings.  A path is a sequence of segments so that ends_with('/') and   *)
(* format!() can be computed; the empty sequence is the empty string.      *)
(***************************************************************************)
EmptyStr == <<>>
Cal1 == <<"/cal1", "/">>
Cal2 == <<"/cal2", "/">>
Cal2NoSlash == <<"/cal2">>
Uids == {"u1", "u2"}

\* etags: 0 is the empty string, StaleEtag an etag the server no longer has,
\* ServerEtag the etag of the resources the server starts with
NoEtag == 0
StaleEtag == 1
ServerEtag == 2

ends_with_slash(s) == Len(s) > 0 /\ s[Len(s)] = "/"

\* format!("{}.ics", uid) appended to the calendar href, client.rs 423-428
\* (the same expression is used at 312-317 and 511-515)
full_href(calendar_href, uid) ==
    IF ends_with_slash(calendar_href)
    THEN calendar_href \o <<uid \o ".ics">>
    ELSE calendar_href \o <<"/", uid \o ".ics">>

\* Uuid::new_v4().to_string(): the n-th value drawn, distinct from every uid
\* already in use
new_v4(n) == "uuid" \o ToString(n)

\* format!("{} (Conflict Copy)", task.summary)
ConflictSummary(summary) == summary \o " (Conflict Copy)"

(***************************************************************************)
(* Tasks and journal actions                                               *)
(***************************************************************************)
Task(uid, summary, href, cal, etag) ==
    [uid |-> uid, summary |-> summary, href |-> href,
     calendar_href |-> cal, etag |-> etag]

\* enum Action { Create(Task), Update(Task), Delete(Task), Move(Task, String) }
\* aid is a ghost tag that tells apart the entries of the journal
Action(kind, task, dest, aid) ==
    [kind |-> kind, task |-> task, dest |-> dest, aid |-> aid]

\* tasks as the front-ends hand them to create_task / update_task /
\* delete_task / move_task: href set by create_task, etag empty until the
\* task has been fetched from the server
InitTasks ==
    { Task("u1", "Local u1", full_href(Cal1, "u1"), Cal1, e) :
        e \in {NoEtag, StaleEtag, ServerEtag} }
    \cup { Task("u2", "Local u2", full_href(Cal1, "u2"), Cal1, ServerEtag) }

InitActions ==
    { Action("Create", t, EmptyStr, 0) : t \in {x \in InitTasks : x.etag = NoEtag} }
    \cup { Action(k, t, EmptyStr, 0) : k \in {"Update", "Delete"}, t \in InitTasks }
    \cup { Action("Move", t, Cal2, 0) : t \in InitTasks }
    \cup { Action("Move", t, Cal2NoSlash, 0) : t \in {x \in InitTasks : x.etag = StaleEtag} }

WithAids(q) == [i \in 1..Len(q) |-> [q[i] EXCEPT !.aid = i]]

InitJournals ==
    UNION { { WithAids(q) : q \in [1..n -> InitActions] } : n \in 1..MaxLen }

(***************************************************************************)
(* The server                                                              *)
(***************************************************************************)
AllUids == Uids \cup { new_v4(n) : n \in 1..(MaxFresh + 1) }
AllHrefs == { full_href(c, u) : c \in {Cal1, Cal2}, u \in AllUids }

Absent == [exists |-> FALSE, etag |-> NoEtag, uid |-> "", summary |-> ""]
Resource(etag, uid, summary) ==
    [exists |-> TRUE, etag |-> etag, uid |-> uid, summary |-> summary]

InitServers ==
    { [h \in AllHrefs |->
          IF \E u \in present : h = full_href(Cal1, u)
          THEN Resource(ServerEtag,
                        CHOOSE u \in present : h = full_href(Cal1, u),
                        "Remote")
          ELSE Absent] : present \in SUBSET Uids }

VARIABLES
    disk,        \* journal.json: the persisted queue
    lock,        \* holder of the advisory lock on journal.json, or "free"
    mpc,         \* per process: position inside Journal::modify
    mloaded,     \* per process: the journal loaded inside Journal::modify
    marg,        \* per process: the closure passed to Journal::modify
    pc,          \* position of sync_journal
    journal,     \* sync_journal: let mut journal
    action,      \* sync_journal: let action (sequence of 0 or 1 actions)
    conflict,    \* sync_journal: conflict_resolved_action (0 or 1 actions)
    result,      \* sync_journal: let result ("none", "Ok", "Err")
    ret,         \* value sync_journal returned ("none", "Ok", "Err")
    server,      \* the remote store
    nextEtag,    \* next etag the server issues
    nextUuid,    \* number of uuids drawn so far
    nextAid,     \* ghost: next tag for a replacement action
    sent,        \* ghost: log of the requests of the run, with outcomes
    disk0,       \* ghost: the journal the run started from
    server0,     \* ghost: the server before the run
    behind,      \* ghost: the in-memory queue behind the action in flight
    saved,       \* ghost: the run has written journal.json
    pushedIn     \* ghost: per pusher, its write fell between the run's
                 \*        initial load and the run's first write

\* the state of the journal, of one sync run and of the server
coreVars == <<disk, lock, mpc, mloaded, marg, pc, journal, action, conflict,
              result, ret, server, nextEtag, nextUuid, nextAid, sent, disk0,
              server0, behind, saved, pushedIn>>

Pushers == {"p1", "p2"}
Procs == {"sync"} \cup Pushers

fileVars == <<disk, lock>>
modVars == <<mpc, mloaded, marg>>
syncVars == <<pc, journal, action, conflict, result, ret>>
srvVars == <<server, nextEtag>>
ghostVars == <<nextAid, sent, disk0, server0, behind, saved, pushedIn>>

NoArg == [op |-> "none", action |-> <<>>]

(***************************************************************************)
(* The front end: the calls of RustyClient made by the TUI and the GUI,    *)
(* and the local-only calendar (local.json)                                *)
(***************************************************************************)
VARIABLES
    local,       \* local.json: the tasks of the local-only calendar
    held,        \* the tasks the front end holds and passes to the calls
    calls        \* number of calls the front end has made

frontVars == <<local, held, calls>>

(***************************************************************************)
(* A journal write seen step by step (LocalStorage::atomic_write), with    *)
(* the process crashing and starting again                                 *)
(***************************************************************************)
VARIABLES
    files,       \* the journal file and its temporary file, by path
    cpc,         \* position of the writer inside Journal::modify
    contents,    \* the queue being written
    prev,        \* ghost: the journal file when the write began
    reloaded,    \* the queue Journal::load gave after the restart
    writes       \* number of writes begun

crashVars == <<files, cpc, contents, prev, reloaded, writes>>

(***************************************************************************)
(* Two processes calling create_task .. toggle_task on tasks of the        *)
(* local-only calendar                                                     *)
(***************************************************************************)
VARIABLES
    lpc,         \* per process: position inside its call
    lloaded,     \* per process: let mut all = LocalStorage::load()
    larg,        \* per process: the call and its task
    local0       \* ghost: local.json before the calls

localVars == <<lpc, lloaded, larg, local0>>

(***************************************************************************)
(* A second run of sync_journal, started by another get_tasks of           *)
(* get_all_tasks while the first run is under way                          *)
(***************************************************************************)
VARIABLES
    run2,        \* the second run: its pc, journal, action,
                 \* conflict_resolved_action and result
    sent2        \* ghost: log of the requests of the second run

run2Vars == <<run2, sent2>>

(***************************************************************************)
(* get_tasks: the listing of a calendar, the cache file of the calendar    *)
(* and the multiget                                                        *)
(***************************************************************************)
VARIABLES
    gpc,         \* position of get_tasks
    listing,     \* the resources of the calendar on the server
    cachefile,   \* the cache file of the calendar: its form and its tasks
    calfile,     \* calendars.json: its form and its calendar list
    conn,        \* what connect_with_fallback returned (0 or 1 results)
    final_tasks, \* get_tasks: let mut final_tasks
    to_fetch,    \* get_tasks: let mut to_fetch
    hist         \* ghost: the calls of get_tasks that returned

fetchVars == <<gpc, listing, cachefile, calfile, conn, final_tasks, to_fetch,
               hist>>

(***************************************************************************)
(* The task in hand: a line typed into the input box or a resource served  *)
(* by the server becomes a Task, is edited, written as iCalendar text,     *)
(* read back, shown as a smart string and respawned; the task list of the  *)
(* front end with its hierarchy and its blocked tasks                      *)
(***************************************************************************)
VARIABLES
    ipc,         \* position of the front end with the task in hand
    input,       \* the line typed, as input.split_whitespace() gives it
    aliases,     \* the alias table of the configuration
    served,      \* the text of the resource the server gave
    item,        \* the task in hand (sequence of 0 or 1 tasks)
    ics,         \* item.to_ics()
    decoded,     \* Task::from_ics(ics, ..) (0 or 1 tasks)
    smart,       \* item.to_smart_string(), as split_whitespace() gives it
    reparsed,    \* the task parsed from smart (0 or 1 tasks)
    spawned,     \* item.respawn() (0 or 1 tasks)
    store,       \* the task list of the front end
    walk,        \* the depth computation: task, ancestor, seen, depth
    rows         \* per task of the list: is its row drawn as blocked

itemVars == <<ipc, input, aliases, served, item, ics, decoded, smart,
              reparsed, spawned, store, walk, rows>>

\* everything but the journal, the sync run and the server
extVars == <<frontVars, crashVars, localVars, run2Vars, fetchVars, itemVars>>

vars == <<coreVars, extVars>>

(***************************************************************************)
(* LocalStorage::with_lock(path, f): exclusive advisory lock around f      *)
(***************************************************************************)
with_lock_free == lock = "free"

(***************************************************************************)
(* Journal                                                                 *)
(***************************************************************************)
\* Journal::load_internal: the deserialised file, Self::default() when the
\* file is absent (an absent file and an empty queue read the same)
load_internal(file) == file

\* faulty variant: push_front appends instead of inserting at index 0
ApplyClosureBack(f, queue) ==
    IF f.op = "none" THEN queue ELSE Append(queue, f.action[1])

\* the two closures handed to Journal::modify
\*   push:       |queue| queue.push(action)
\*   push_front: |queue| queue.insert(0, action)
ApplyClosure(f, queue) ==
    IF f.op = "push" THEN Append(queue, f.action[1])
    ELSE IF f.op = "insert0" THEN <<f.action[1]>> \o queue
    ELSE queue

\* faulty variant: modify runs its closure without taking the lock
ModifyAcquireNoLock(p) ==
    /\ mpc[p] = "acquire"
    /\ mpc' = [mpc EXCEPT ![p] = "load"]
    /\ UNCHANGED <<extVars, fileVars, mloaded, marg, syncVars, srvVars,
                   nextUuid, ghostVars>>

\* Journal::modify, first step: LocalStorage::with_lock(&path, ...)
ModifyAcquire(p) ==
    /\ mpc[p] = "acquire"
    /\ with_lock_free
    /\ lock' = p
    /\ mpc' = [mpc EXCEPT ![p] = "load"]
    /\ UNCHANGED <<extVars, disk, mloaded, marg, syncVars, srvVars, nextUuid,
                   ghostVars>>

\* let mut journal = Self::load_internal(&path)
ModifyLoad(p) ==
    /\ mpc[p] = "load"
    /\ mloaded' = [mloaded EXCEPT ![p] = load_internal(disk)]
    /\ mpc' = [mpc EXCEPT ![p] = "write"]
    /\ UNCHANGED <<extVars, fileVars, marg, syncVars, srvVars, nextUuid,
                   ghostVars>>

\* f(&mut journal.queue); atomic_write(&path, json)
ModifyWrite(p) ==
    /\ mpc[p] = "write"
    /\ disk' = ApplyClosure(marg[p], mloaded[p])
    /\ mpc' = [mpc EXCEPT ![p] = "release"]
    /\ saved' = (saved \/ p = "sync")
    /\ pushedIn' = IF p \in Pushers
                   THEN [pushedIn EXCEPT ![p] = (pc # "start" /\ ~saved)]
                   ELSE pushedIn
    /\ UNCHANGED <<extVars, lock, mloaded, marg, syncVars, srvVars, nextUuid,
                   nextAid, sent, disk0, server0, behind>>

\* with_lock returns: the lock is released
ModifyRelease(p) ==
    /\ mpc[p] = "release"
    /\ lock' = IF lock = p THEN "free" ELSE lock
    /\ mpc' = [mpc EXCEPT ![p] = "done"]
    /\ UNCHANGED <<extVars, disk, mloaded, marg, syncVars, srvVars, nextUuid,
                   ghostVars>>

\* Journal::push(action), called by another task or process
PushActions ==
    { Action("Update", Task("u2", "Pushed", full_href(Cal1, "u2"), Cal1, ServerEtag),
             EmptyStr, 0),
      Action("Delete", Task("u2", "Pushed", full_href(Cal1, "u2"), Cal1, ServerEtag),
             EmptyStr, 0) }

PushAid(p) == IF p = "p1" THEN 11 ELSE 12

Push(p) ==
    /\ p \in Pushers
    /\ mpc[p] = "idle"
    /\ \E a \in PushActions :
          marg' = [marg EXCEPT ![p] =
                      [op |-> "push", action |-> <<[a EXCEPT !.aid = PushAid(p)]>>]]
    /\ mpc' = [mpc EXCEPT ![p] = "acquire"]
    /\ UNCHANGED <<extVars, fileVars, mloaded, syncVars, srvVars, nextUuid,
                   ghostVars>>

(***************************************************************************)
(* The remote store                                                        *)
(***************************************************************************)
ServerGet(srv, h) == IF h \in DOMAIN srv THEN srv[h] ELSE Absent

\* PUT with If-None-Match: *
ServerPutCreate(srv, req, etag) ==
    IF ServerGet(srv, req.href).exists
    THEN [status |-> "412", server |-> srv]
    ELSE [status |-> "2xx",
          server |-> [srv EXCEPT ![req.href] = Resource(etag, req.uid, req.summary)]]

\* PUT with If-Match: etag
ServerPutUpdate(srv, req, etag) ==
    IF ~ServerGet(srv, req.href).exists
    THEN [status |-> "404", server |-> srv]
    ELSE IF ServerGet(srv, req.href).etag # req.etag
    THEN [status |-> "412", server |-> srv]
    ELSE [status |-> "2xx",
          server |-> [srv EXCEPT ![req.href] = Resource(etag, req.uid, req.summary)]]

\* DELETE with If-Match: etag
ServerDelete(srv, req) ==
    IF ~ServerGet(srv, req.href).exists
    THEN [status |-> "404", server |-> srv]
    ELSE IF ServerGet(srv, req.href).etag # req.etag
    THEN [status |-> "412", server |-> srv]
    ELSE [status |-> "2xx", server |-> [srv EXCEPT ![req.href] = Absent]]

\* MOVE with Destination and Overwrite: F
ServerMove(srv, req, etag) ==
    IF ~ServerGet(srv, req.href).exists
    THEN [status |-> "404", server |-> srv]
    ELSE IF ServerGet(srv, req.dest).exists
    THEN [status |-> "412", server |-> srv]
    ELSE [status |-> "2xx",
          server |-> [srv EXCEPT ![req.href] = Absent,
                                 ![req.dest] = [srv[req.href] EXCEPT !.etag = etag]]]

ServerAnswer(srv, req, etag) ==
    CASE req.kind = "Create" -> ServerPutCreate(srv, req, etag)
      [] req.kind = "Update" -> ServerPutUpdate(srv, req, etag)
      [] req.kind = "Delete" -> ServerDelete(srv, req)
      [] OTHER -> ServerMove(srv, req, etag)

(***************************************************************************)
(* RustyClient::sync_journal                                               *)
(***************************************************************************)
\* the request each arm of `match &action` builds
RequestOf(a) ==
    CASE a.kind = "Create" ->
            [kind |-> "Create", method |-> "PUT", cond |-> "If-None-Match",
             href |-> full_href(a.task.calendar_href, a.task.uid),
             etag |-> NoEtag, dest |-> EmptyStr,
             uid |-> a.task.uid, summary |-> a.task.summary]
      [] a.kind = "Update" ->
            [kind |-> "Update", method |-> "PUT", cond |-> "If-Match",
             href |-> a.task.href,
             etag |-> a.task.etag, dest |-> EmptyStr,
             uid |-> a.task.uid, summary |-> a.task.summary]
      [] a.kind = "Delete" ->
            [kind |-> "Delete", method |-> "DELETE", cond |-> "If-Match",
             href |-> a.task.href,
             etag |-> a.task.etag, dest |-> EmptyStr,
             uid |-> a.task.uid, summary |-> a.task.summary]
      [] OTHER ->
            [kind |-> "Move", method |-> "MOVE", cond |-> "Overwrite: F",
             href |-> a.task.href,
             etag |-> NoEtag, dest |-> full_href(a.dest, a.task.uid),
             uid |-> a.task.uid, summary |-> a.task.summary]

\* faulty variant: the copy keeps the uid of the task it was cloned from
ConflictCopySameUid(task, uuid) ==
    [task EXCEPT !.summary = ConflictSummary(task.summary),
                 !.href = EmptyStr,
                 !.etag = NoEtag]

\* the 412 arm of Action::Update
ConflictCopy(task, uuid) ==
    [task EXCEPT !.uid = uuid,
                 !.summary = ConflictSummary(task.summary),
                 !.href = EmptyStr,
                 !.etag = NoEtag]

\* faulty variant: a 412 on DELETE is an error like any other status
ResultOfDelete412Err(kind, status) ==
    CASE kind = "Create" -> IF status = "2xx" THEN "Ok" ELSE "Err"
      [] kind = "Update" -> IF status \in {"2xx", "412", "404"} THEN "Ok" ELSE "Err"
      [] kind = "Delete" -> IF status \in {"2xx", "404"} THEN "Ok" ELSE "Err"
      [] OTHER -> IF status = "2xx" THEN "Ok" ELSE "Err"

\* the Result each arm maps a response to; "err" is a transport error or
\* any other status
ResultOf(kind, status) ==
    CASE kind = "Create" -> IF status = "2xx" THEN "Ok" ELSE "Err"
      [] kind = "Update" -> IF status \in {"2xx", "412", "404"} THEN "Ok" ELSE "Err"
      [] kind = "Delete" -> IF status \in {"2xx", "404", "412"} THEN "Ok" ELSE "Err"
      [] OTHER -> IF status = "2xx" THEN "Ok" ELSE "Err"

\* conflict_resolved_action after the response
ConflictResolved(a, status, uuid, aid) ==
    IF a.kind = "Update" /\ status = "412"
    THEN <<Action("Create", ConflictCopy(a.task, uuid), EmptyStr, aid)>>
    ELSE IF a.kind = "Update" /\ status = "404"
    THEN <<Action("Create", a.task, EmptyStr, aid)>>
    ELSE <<>>

\* let mut journal = Journal::load(); if journal.is_empty() { return Ok(()) }
SyncLoad ==
    /\ pc = "start"
    /\ with_lock_free
    /\ journal' = load_internal(disk)
    /\ disk0' = disk
    /\ server0' = server
    /\ IF load_internal(disk) = <<>>
       THEN pc' = "done" /\ ret' = "Ok"
       ELSE pc' = "loop" /\ ret' = ret
    /\ UNCHANGED <<extVars, fileVars, modVars, action, conflict, result,
                   srvVars, nextUuid, nextAid, sent, behind, saved, pushedIn>>

\* faulty variant: the dequeue is written to journal.json before the request is sent
DequeueCommit ==
    /\ pc = "loop"
    /\ journal # <<>>
    /\ action' = <<Head(journal)>>
    /\ journal' = Tail(journal)
    /\ disk' = Tail(journal)
    /\ conflict' = <<>>
    /\ result' = "none"
    /\ behind' = Tail(journal)
    /\ sent' = Append(sent, [req |-> RequestOf(Head(journal)),
                             aid |-> Head(journal).aid,
                             task |-> Head(journal).task,
                             res |-> Absent,
                             status |-> "pending"])
    /\ pc' = "inflight"
    /\ UNCHANGED <<extVars, lock, modVars, ret, srvVars, nextUuid, nextAid,
                   disk0, server0, saved, pushedIn>>

\* while !journal.is_empty() { let action = journal.queue.remove(0); ...
\* the request of the action is sent
Dequeue ==
    /\ pc = "loop"
    /\ journal # <<>>
    /\ action' = <<Head(journal)>>
    /\ journal' = Tail(journal)
    /\ conflict' = <<>>
    /\ result' = "none"
    /\ behind' = Tail(journal)
    /\ sent' = Append(sent, [req |-> RequestOf(Head(journal)),
                             aid |-> Head(journal).aid,
                             task |-> Head(journal).task,
                             res |-> Absent,
                             status |-> "pending"])
    /\ pc' = "inflight"
    /\ UNCHANGED <<extVars, fileVars, modVars, ret, srvVars, nextUuid, nextAid,
                   disk0, server0, saved, pushedIn>>

\* the loop condition fails: Ok(())
LoopExit ==
    /\ pc = "loop"
    /\ journal = <<>>
    /\ pc' = "done"
    /\ ret' = "Ok"
    /\ UNCHANGED <<extVars, fileVars, modVars, journal, action, conflict,
                   result, srvVars, nextUuid, ghostVars>>

\* ghost: the outcome of the last request of the log, and the resource its
\* href named when it was answered
SetStatus(log, status, res) ==
    [log EXCEPT ![Len(log)].status = status, ![Len(log)].res = res]

\* the server answers the request in flight
Respond ==
    /\ pc = "inflight"
    /\ LET a == action[1]
           ans == ServerAnswer(server, RequestOf(a), nextEtag)
           isCopy == a.kind = "Update" /\ ans.status = "412"
           isRepl == a.kind = "Update" /\ ans.status \in {"412", "404"}
       IN /\ isCopy => nextUuid < MaxFresh
          /\ server' = ans.server
          /\ nextEtag' = IF ans.server # server THEN nextEtag + 1 ELSE nextEtag
          /\ result' = ResultOf(a.kind, ans.status)
          /\ conflict' = ConflictResolved(a, ans.status, new_v4(nextUuid + 1), nextAid)
          /\ nextUuid' = IF isCopy THEN nextUuid + 1 ELSE nextUuid
          /\ nextAid' = IF isRepl THEN nextAid + 1 ELSE nextAid
          /\ sent' = SetStatus(sent, ans.status, ServerGet(server, RequestOf(a).href))
    /\ pc' = "handle"
    /\ UNCHANGED <<extVars, fileVars, modVars, journal, action, ret, disk0,
                   server0, behind, saved, pushedIn>>

\* the request fails in transport, or the server answers with another status
RespondError ==
    /\ pc = "inflight"
    /\ result' = ResultOf(action[1].kind, "err")
    /\ sent' = SetStatus(sent, "err", ServerGet(server, RequestOf(action[1]).href))
    /\ pc' = "handle"
    /\ UNCHANGED <<extVars, fileVars, modVars, journal, action, conflict, ret,
                   srvVars, nextUuid, nextAid, disk0, server0, behind, saved,
                   pushedIn>>

\* Ok(_) with no conflict_resolved_action: straight to journal.save()
HandleOk ==
    /\ pc = "handle"
    /\ result = "Ok"
    /\ conflict = <<>>
    /\ pc' = "save"
    /\ UNCHANGED <<extVars, fileVars, modVars, journal, action, conflict,
                   result, ret, srvVars, nextUuid, ghostVars>>

\* Ok(_) with Some(act): journal.push_front(act)
HandleConflict ==
    /\ pc = "handle"
    /\ result = "Ok"
    /\ conflict # <<>>
    /\ marg' = [marg EXCEPT !["sync"] = [op |-> "insert0", action |-> conflict]]
    /\ mpc' = [mpc EXCEPT !["sync"] = "acquire"]
    /\ pc' = "push_front"
    /\ UNCHANGED <<extVars, fileVars, mloaded, journal, action, conflict,
                   result, ret, srvVars, nextUuid, ghostVars>>

\* Err(e): journal.push_front(action)
HandleErr ==
    /\ pc = "handle"
    /\ result = "Err"
    /\ marg' = [marg EXCEPT !["sync"] = [op |-> "insert0", action |-> action]]
    /\ mpc' = [mpc EXCEPT !["sync"] = "acquire"]
    /\ pc' = "push_front"
    /\ UNCHANGED <<extVars, fileVars, mloaded, journal, action, conflict,
                   result, ret, srvVars, nextUuid, ghostVars>>

\* Journal::push_front after modify returned Ok: *self = Self::load()
PushFrontReload ==
    /\ pc = "push_front"
    /\ mpc["sync"] = "done"
    /\ with_lock_free
    /\ journal' = load_internal(disk)
    /\ mpc' = [mpc EXCEPT !["sync"] = "idle"]
    /\ pc' = "save"
    /\ UNCHANGED <<extVars, fileVars, mloaded, marg, action, conflict, result,
                   ret, srvVars, nextUuid, ghostVars>>

\* faulty variant: the Err arm saves but does not break
SaveNoBreak ==
    /\ pc = "save"
    /\ with_lock_free
    /\ disk' = journal
    /\ pc' = "loop"
    /\ saved' = TRUE
    /\ UNCHANGED <<extVars, lock, modVars, journal, action, conflict, result,
                   ret, srvVars, nextUuid, nextAid, sent, disk0, server0,
                   behind, pushedIn>>

\* journal.save(); on the Err arm followed by break and the final Ok(())
Save ==
    /\ pc = "save"
    /\ with_lock_free
    /\ disk' = journal
    /\ IF result = "Err"
       THEN pc' = "done" /\ ret' = "Ok"
       ELSE pc' = "loop" /\ ret' = ret
    /\ saved' = TRUE
    /\ UNCHANGED <<extVars, lock, modVars, journal, action, conflict, result,
                   srvVars, nextUuid, nextAid, sent, disk0, server0, behind,
                   pushedIn>>

(***************************************************************************)
(* The front-end calls: create_task, update_task, delete_task,             *)
(* toggle_task, move_task.  Each takes the files as st = [disk, local]     *)
(* and gives the files it leaves and the task it hands back.  The front    *)
(* end makes one call at a time and nothing else is at the files.          *)
(***************************************************************************)
\* number of calls the front end makes before the journal is synced
MaxCalls == 2

LOCAL_CALENDAR_HREF == <<"local://default">>

\* Journal::push(action): modify's load, closure and write; the ghost tag is
\* the position the action gets
JournalPush(file, a) ==
    ApplyClosure([op |-> "push", action |-> <<[a EXCEPT !.aid = Len(file) + 1]>>],
                 load_internal(file))

\* LocalStorage::load: the tasks of local.json, none when it is absent
LocalLoad(file) == file

\* all.iter().position(|t| t.uid == task.uid), then all[idx] = task.clone()
ReplaceByUid(all, task) ==
    IF \E i \in 1..Len(all) : all[i].uid = task.uid
    THEN [all EXCEPT ![CHOOSE i \in 1..Len(all) :
                          /\ all[i].uid = task.uid
                          /\ \A j \in 1..(i - 1) : all[j].uid # task.uid] = task]
    ELSE all

\* all.retain(|t| t.uid != task.uid)
RECURSIVE RetainOthers(_, _)
RetainOthers(all, uid) ==
    IF all = <<>> THEN <<>>
    ELSE IF Head(all).uid = uid THEN RetainOthers(Tail(all), uid)
    ELSE <<Head(all)>> \o RetainOthers(Tail(all), uid)

create_task(st, task) ==
    IF task.calendar_href = LOCAL_CALENDAR_HREF
    THEN [disk |-> st.disk, local |-> Append(LocalLoad(st.local), task), task |-> task]
    ELSE LET t == [task EXCEPT !.href = full_href(task.calendar_href, task.uid)]
         IN [disk |-> JournalPush(st.disk, Action("Create", t, EmptyStr, 0)),
             local |-> st.local, task |-> t]

update_task(st, task) ==
    IF task.calendar_href = LOCAL_CALENDAR_HREF
    THEN [disk |-> st.disk, local |-> ReplaceByUid(LocalLoad(st.local), task),
          task |-> task]
    ELSE [disk |-> JournalPush(st.disk, Action("Update", task, EmptyStr, 0)),
          local |-> st.local, task |-> task]

delete_task(st, task) ==
    IF task.calendar_href = LOCAL_CALENDAR_HREF
    THEN [disk |-> st.disk, local |-> RetainOthers(LocalLoad(st.local), task.uid),
          task |-> task]
    ELSE [disk |-> JournalPush(st.disk, Action("Delete", task, EmptyStr, 0)),
          local |-> st.local, task |-> task]

\* faulty variant: the clone keeps the etag of the task completed
respawn_keep_etag(task, uuid) ==
    [task EXCEPT !.uid = uuid, !.href = EmptyStr]

\* Task::respawn when the task recurs: a clone with a new uid, no href, no etag
respawn(task, uuid) ==
    [task EXCEPT !.uid = uuid, !.href = EmptyStr, !.etag = NoEtag]

\* toggle_task; next is the respawned task (a sequence of 0 or 1 tasks).  The
\* status the call flips is not a field of Task here.
toggle_task(st, task, next) ==
    IF task.calendar_href = LOCAL_CALENDAR_HREF
    THEN [disk |-> st.disk,
          local |-> ReplaceByUid(LocalLoad(st.local), task) \o next,
          task |-> task]
    ELSE LET st1 == IF next # <<>> THEN create_task(st, next[1]) ELSE st
         IN update_task(st1, task)

move_task(st, task, new_calendar_href) ==
    IF task.calendar_href = LOCAL_CALENDAR_HREF
    THEN LET new_task == [task EXCEPT !.calendar_href = new_calendar_href,
                                      !.href = EmptyStr,
                                      !.etag = NoEtag]
             st1 == create_task(st, new_task)
             st2 == delete_task(st1, task)
         IN [disk |-> st2.disk, local |-> st2.local, task |-> st1.task]
    ELSE [disk |-> JournalPush(st.disk, Action("Move", task, new_calendar_href, 0)),
          local |-> st.local,
          task |-> [task EXCEPT !.calendar_href = new_calendar_href]]

\* the tasks the user enters
NewTasks ==
    { Task("u1", "New u1", EmptyStr, c, NoEtag) : c \in {Cal1, LOCAL_CALENDAR_HREF} }

\* the calendars the user can move a task to
MoveTargets == {Cal2, LOCAL_CALENDAR_HREF}

Files == [disk |-> disk, local |-> local]

\* the front end makes a call, which leaves the files of r, and then holds
\* the tasks of now
FrontCall(r, now) ==
    /\ pc = "idle"
    /\ calls < MaxCalls
    /\ calls' = calls + 1
    /\ disk' = r.disk
    /\ local' = r.local
    /\ held' = now

FrontCreate ==
    /\ \E t \in NewTasks :
          /\ \A h \in held : h.uid # t.uid
          /\ LET r == create_task(Files, t)
             IN FrontCall(r, held \cup {r.task})
    /\ UNCHANGED <<crashVars, localVars, run2Vars, fetchVars, itemVars, lock, modVars,
                   syncVars, srvVars, nextUuid, ghostVars>>

\* the user edits the summary of a task and saves it
FrontUpdate ==
    /\ \E t \in held :
          LET r == update_task(Files, [t EXCEPT !.summary = "Edited"])
          IN FrontCall(r, (held \ {t}) \cup {r.task})
    /\ UNCHANGED <<crashVars, localVars, run2Vars, fetchVars, itemVars, lock, modVars,
                   syncVars, srvVars, nextUuid, ghostVars>>

FrontDelete ==
    /\ \E t \in held :
          FrontCall(delete_task(Files, t), held \ {t})
    /\ UNCHANGED <<crashVars, localVars, run2Vars, fetchVars, itemVars, lock, modVars,
                   syncVars, srvVars, nextUuid, ghostVars>>

FrontToggle ==
    /\ \E t \in held :
          \/ /\ FrontCall(toggle_task(Files, t, <<>>), held)
             /\ nextUuid' = nextUuid
          \/ /\ nextUuid < MaxFresh
             /\ LET next == respawn(t, new_v4(nextUuid + 1))
                IN FrontCall(toggle_task(Files, t, <<next>>), held \cup {next})
             /\ nextUuid' = nextUuid + 1
    /\ UNCHANGED <<crashVars, localVars, run2Vars, fetchVars, itemVars, lock, modVars,
                   syncVars, srvVars, ghostVars>>

FrontMove ==
    /\ \E t \in held, c \in MoveTargets :
          /\ c # t.calendar_href
          /\ LET r == move_task(Files, t, c)
             IN FrontCall(r, (held \ {t}) \cup {r.task})
    /\ UNCHANGED <<crashVars, localVars, run2Vars, fetchVars, itemVars, lock, modVars,
                   syncVars, srvVars, nextUuid, ghostVars>>

\* connectivity is back: get_tasks starts sync_journal
Connect ==
    /\ pc = "idle"
    /\ calls >= 1
    /\ pc' = "start"
    /\ UNCHANGED <<fileVars, modVars, journal, action, conflict, result, ret,
                   srvVars, nextUuid, ghostVars, extVars>>

\* faulty variant: the run without a client is Ok whatever the journal holds
sync_journal_always_ok(file) == "Ok"

\* sync_journal of a RustyClient whose client is None (RustyClient::new with
\* an empty url): Journal::load, Ok(()) when the journal is empty, else
\* self.client.as_ref().ok_or("Offline")?
sync_journal_offline(file) ==
    IF load_internal(file) = <<>> THEN "Ok" ELSE "Offline"

\* the front end refreshes while no server is configured: sync_journal
\* returns before the drain loop, its journal is a local that is dropped
SyncOffline ==
    /\ pc = "idle"
    /\ with_lock_free
    /\ ret' = sync_journal_offline(disk)
    /\ UNCHANGED <<fileVars, modVars, pc, journal, action, conflict, result,
                   srvVars, nextUuid, ghostVars, extVars>>

(***************************************************************************)
(* LocalStorage::atomic_write under Journal::modify, step by step          *)
(***************************************************************************)
\* number of journal writes one behaviour begins
MaxWrites == 2

\* a path as <<stem, extension>>
JournalPath == <<"journal", "json">>

\* faulty variant: the temporary path is the path itself
with_extension_same(path, ext) == path

\* Path::with_extension
with_extension(path, ext) == <<path[1], ext>>

JournalFiles == {JournalPath, with_extension(JournalPath, "tmp")}

\* a file is absent, torn (created or truncated, its data not all written)
\* or whole
AbsentFile == [state |-> "absent", queue |-> <<>>]
TornFile == [state |-> "torn", queue |-> <<>>]
WholeFile(q) == [state |-> "whole", queue |-> q]

\* Journal::load_internal on a file: Self::default() when the file is
\* absent or does not deserialize
load_file(f) == IF f.state = "whole" THEN load_internal(f.queue) ELSE <<>>

\* fs::rename(from, to); renaming a file to itself changes nothing
fs_rename(fs, from, to) ==
    IF from = to THEN fs
    ELSE [fs EXCEPT ![to] = fs[from], ![from] = AbsentFile]

\* Journal::modify up to serde_json::to_string_pretty(&journal)
CrModify ==
    /\ cpc = "idle"
    /\ writes < MaxWrites
    /\ writes' = writes + 1
    /\ \E a \in PushActions :
          contents' = ApplyClosure([op |-> "push", action |-> <<a>>],
                                   load_file(files[JournalPath]))
    /\ prev' = files[JournalPath]
    /\ cpc' = "create"
    /\ UNCHANGED <<coreVars, frontVars, localVars, run2Vars, fetchVars, itemVars, files,
                   reloaded>>

\* fs::write(&tmp_path, contents): the file is created or truncated
CrCreate ==
    /\ cpc = "create"
    /\ files' = [files EXCEPT ![with_extension(JournalPath, "tmp")] = TornFile]
    /\ cpc' = "fill"
    /\ UNCHANGED <<coreVars, frontVars, localVars, run2Vars, fetchVars, itemVars,
                   contents, prev, reloaded, writes>>

\* fs::write(&tmp_path, contents): the data is written
CrFill ==
    /\ cpc = "fill"
    /\ files' = [files EXCEPT ![with_extension(JournalPath, "tmp")] = WholeFile(contents)]
    /\ cpc' = "rename"
    /\ UNCHANGED <<coreVars, frontVars, localVars, run2Vars, fetchVars, itemVars,
                   contents, prev, reloaded, writes>>

\* fs::rename(tmp_path, path); modify returns
CrRename ==
    /\ cpc = "rename"
    /\ files' = fs_rename(files, with_extension(JournalPath, "tmp"), JournalPath)
    /\ cpc' = "idle"
    /\ UNCHANGED <<coreVars, frontVars, localVars, run2Vars, fetchVars, itemVars,
                   contents, prev, reloaded, writes>>

\* the process dies inside the write: before the temporary file is created,
\* while it is written, just before the rename
Crash ==
    /\ cpc \in {"create", "fill", "rename"}
    /\ cpc' = "crashed"
    /\ UNCHANGED <<coreVars, frontVars, localVars, run2Vars, fetchVars, itemVars, files,
                   contents, prev, reloaded, writes>>

\* the process dies just after the rename
CrashAfterRename ==
    /\ cpc = "idle"
    /\ writes >= 1
    /\ cpc' = "crashed"
    /\ UNCHANGED <<coreVars, frontVars, localVars, run2Vars, fetchVars, itemVars, files,
                   contents, prev, reloaded, writes>>

\* the program starts again: Journal::load
CrReload ==
    /\ cpc = "crashed"
    /\ reloaded' = load_file(files[JournalPath])
    /\ cpc' = "restarted"
    /\ UNCHANGED <<coreVars, frontVars, localVars, run2Vars, fetchVars, itemVars, files,
                   contents, prev, writes>>

\* the restarted program goes on to its next write
CrResume ==
    /\ cpc = "restarted"
    /\ cpc' = "idle"
    /\ UNCHANGED <<coreVars, frontVars, localVars, run2Vars, fetchVars, itemVars, files,
                   contents, prev, reloaded, writes>>

(***************************************************************************)
(* The local branch of create_task, update_task, delete_task and           *)
(* toggle_task, called by two processes: LocalStorage::load, the change,   *)
(* LocalStorage::save                                                      *)
(***************************************************************************)
NoCall == [op |-> "none", task |-> <<>>, next |-> <<>>]

LocalTask(uid) == Task(uid, "Local " \o uid, EmptyStr, LOCAL_CALENDAR_HREF, NoEtag)

\* the uid of the task process p enters, and of the task its toggle respawns
NewUid(p) == IF p = "p1" THEN "n1" ELSE "n2"

\* the calls process p can make on the local calendar as it stands
LocalCalls(p) ==
    { [op |-> "create", task |-> <<LocalTask(NewUid(p))>>, next |-> <<>>] }
    \cup { [op |-> "update", task |-> <<[local[i] EXCEPT !.summary = "Edited by " \o p]>>,
            next |-> <<>>] : i \in 1..Len(local) }
    \cup { [op |-> "delete", task |-> <<local[i]>>, next |-> <<>>] : i \in 1..Len(local) }
    \cup { [op |-> "toggle", task |-> <<local[i]>>,
            next |-> <<respawn(local[i], NewUid(p))>>] : i \in 1..Len(local) }

\* what the call makes of the tasks it loaded
ApplyLocal(c, all) ==
    LET st == [disk |-> <<>>, local |-> all]
    IN CASE c.op = "create" -> create_task(st, c.task[1]).local
         [] c.op = "update" -> update_task(st, c.task[1]).local
         [] c.op = "delete" -> delete_task(st, c.task[1]).local
         [] c.op = "toggle" -> toggle_task(st, c.task[1], c.next).local
         [] OTHER -> all

\* the call starts: let mut all = LocalStorage::load().unwrap_or_default()
LocalBegin(p) ==
    /\ lpc[p] = "idle"
    /\ \E c \in LocalCalls(p) : larg' = [larg EXCEPT ![p] = c]
    /\ lloaded' = [lloaded EXCEPT ![p] = LocalLoad(local)]
    /\ lpc' = [lpc EXCEPT ![p] = "loaded"]
    /\ UNCHANGED <<coreVars, crashVars, held, calls, run2Vars, fetchVars, itemVars,
                   local, local0>>

\* the change and LocalStorage::save(&all); update_task saves only when it
\* found the task
LocalSave(p) ==
    /\ lpc[p] = "loaded"
    /\ local' = IF larg[p].op = "update"
                   /\ \A i \in 1..Len(lloaded[p]) : lloaded[p][i].uid # larg[p].task[1].uid
                THEN local
                ELSE ApplyLocal(larg[p], lloaded[p])
    /\ lpc' = [lpc EXCEPT ![p] = "done"]
    /\ UNCHANGED <<coreVars, crashVars, held, calls, run2Vars, fetchVars, itemVars,
                   lloaded, larg, local0>>

(***************************************************************************)
(* The second run of sync_journal.  Its steps are those of the first run;  *)
(* Journal::push_front (modify under the lock, then the reload) is one     *)
(* step of it.                                                             *)
(***************************************************************************)
\* let mut journal = Journal::load(); if journal.is_empty() { return Ok(()) }
R2Load ==
    /\ run2.pc = "start"
    /\ with_lock_free
    /\ run2' = [run2 EXCEPT !.journal = load_internal(disk),
                            !.pc = IF load_internal(disk) = <<>> THEN "done" ELSE "loop"]
    /\ UNCHANGED <<coreVars, frontVars, crashVars, localVars, fetchVars, itemVars, sent2>>

\* let action = journal.queue.remove(0); the request of the action is sent
R2Dequeue ==
    /\ run2.pc = "loop"
    /\ run2.journal # <<>>
    /\ run2' = [run2 EXCEPT !.action = <<Head(run2.journal)>>,
                            !.journal = Tail(run2.journal),
                            !.conflict = <<>>,
                            !.result = "none",
                            !.pc = "inflight"]
    /\ sent2' = Append(sent2, [req |-> RequestOf(Head(run2.journal)),
                               aid |-> Head(run2.journal).aid,
                               task |-> Head(run2.journal).task,
                               res |-> Absent,
                               status |-> "pending"])
    /\ UNCHANGED <<coreVars, frontVars, crashVars, localVars, fetchVars, itemVars>>

\* the loop condition fails: Ok(())
R2LoopExit ==
    /\ run2.pc = "loop"
    /\ run2.journal = <<>>
    /\ run2' = [run2 EXCEPT !.pc = "done"]
    /\ UNCHANGED <<coreVars, frontVars, crashVars, localVars, fetchVars, itemVars, sent2>>

\* the server answers the request in flight
R2Respond ==
    /\ run2.pc = "inflight"
    /\ LET a == run2.action[1]
           ans == ServerAnswer(server, RequestOf(a), nextEtag)
           isCopy == a.kind = "Update" /\ ans.status = "412"
           isRepl == a.kind = "Update" /\ ans.status \in {"412", "404"}
       IN /\ isCopy => nextUuid < MaxFresh
          /\ server' = ans.server
          /\ nextEtag' = IF ans.server # server THEN nextEtag + 1 ELSE nextEtag
          /\ run2' = [run2 EXCEPT
                         !.result = ResultOf(a.kind, ans.status),
                         !.conflict = ConflictResolved(a, ans.status,
                                                       new_v4(nextUuid + 1), nextAid),
                         !.pc = "handle"]
          /\ nextUuid' = IF isCopy THEN nextUuid + 1 ELSE nextUuid
          /\ nextAid' = IF isRepl THEN nextAid + 1 ELSE nextAid
          /\ sent2' = SetStatus(sent2, ans.status, ServerGet(server, RequestOf(a).href))
    /\ UNCHANGED <<fileVars, modVars, syncVars, sent, disk0, server0, behind,
                   saved, pushedIn, frontVars, crashVars, localVars, fetchVars, itemVars>>

\* the request fails in transport, or the server answers with another status
R2RespondError ==
    /\ run2.pc = "inflight"
    /\ run2' = [run2 EXCEPT !.result = ResultOf(run2.action[1].kind, "err"),
                            !.pc = "handle"]
    /\ sent2' = SetStatus(sent2, "err",
                          ServerGet(server, RequestOf(run2.action[1]).href))
    /\ UNCHANGED <<coreVars, frontVars, crashVars, localVars, fetchVars, itemVars>>

\* match result: push_front of the replacement (Ok with Some(act)) or of the
\* action itself (Err), nothing on a plain Ok
R2Handle ==
    /\ run2.pc = "handle"
    /\ with_lock_free
    /\ LET front == IF run2.result = "Err" THEN run2.action ELSE run2.conflict
           file == IF front = <<>> THEN disk
                   ELSE ApplyClosure([op |-> "insert0", action |-> front],
                                     load_internal(disk))
       IN /\ disk' = file
          /\ run2' = [run2 EXCEPT
                         !.journal = IF front = <<>> THEN run2.journal
                                     ELSE load_internal(file),
                         !.pc = "save"]
    /\ UNCHANGED <<lock, modVars, syncVars, srvVars, nextUuid, ghostVars,
                   frontVars, crashVars, localVars, fetchVars, itemVars, sent2>>

\* journal.save(); on the Err arm followed by break and the final Ok(())
R2Save ==
    /\ run2.pc = "save"
    /\ with_lock_free
    /\ disk' = run2.journal
    /\ run2' = [run2 EXCEPT !.pc = IF run2.result = "Err" THEN "done" ELSE "loop"]
    /\ UNCHANGED <<lock, modVars, syncVars, srvVars, nextUuid, ghostVars,
                   frontVars, crashVars, localVars, fetchVars, itemVars, sent2>>

(***************************************************************************)
(* RustyClient::get_tasks                                                  *)
(***************************************************************************)
\* number of get_tasks calls of one behaviour
MaxGets == 2

FetchUids == {"u1", "u2", "u3", "u4"}

\* str::ends_with(".ics") on the last segment of an href
ends_with_ics(h) == Len(h) > 0 /\ \E u \in FetchUids : h[Len(h)] = u \o ".ics"

\* a resource of the calendar: its href, the etag the listing gives for it
\* (Option<String>), and the body a multiget gives for it
Listed(href, has_etag, etag, body, uid) ==
    [href |-> href, has_etag |-> has_etag, etag |-> etag, body |-> body, uid |-> uid]

\* the etag that comes with the content of a resource
ContentEtag(r) == IF r.has_etag /\ r.etag # NoEtag THEN r.etag ELSE StaleEtag

\* Task::from_ics: Err for a body that does not parse ("garbage") or has no
\* master VTODO ("no_master"); a Result as a sequence of 0 or 1 tasks
from_ics(r, etag, href, calendar_href) ==
    IF r.body = "vtodo"
    THEN <<Task(r.uid, "Remote", href, calendar_href, etag)>>
    ELSE <<>>

\* let mut cache_map: insert(t.href.clone(), t) for every cached task
CacheMapOf(cached) ==
    [h \in { cached[i].href : i \in 1..Len(cached) } |->
        cached[CHOOSE i \in 1..Len(cached) :
                  /\ cached[i].href = h
                  /\ \A j \in (i + 1)..Len(cached) : cached[j].href # h]]

\* faulty variant: a cached task is reused whatever the listed etag
ReusableAlways(resource, local_task) == TRUE

\* if let Some(r_etag) = &remote_etag && !r_etag.is_empty()
\*    && *r_etag == local_task.etag
Reusable(resource, local_task) ==
    /\ resource.has_etag
    /\ resource.etag # NoEtag
    /\ resource.etag = local_task.etag

\* for resource in list_resp.resources { ... }
RECURSIVE ListLoop(_, _, _, _)
ListLoop(resources, cache_map, final, fetch) ==
    IF resources = <<>>
    THEN [final_tasks |-> final, to_fetch |-> fetch, cache_map |-> cache_map]
    ELSE LET resource == Head(resources)
             rest == Tail(resources)
             removed == [h \in DOMAIN cache_map \ {resource.href} |-> cache_map[h]]
         IN IF ~ends_with_ics(resource.href)
            THEN ListLoop(rest, cache_map, final, fetch)
            ELSE IF resource.href \in DOMAIN cache_map
            THEN IF Reusable(resource, cache_map[resource.href])
                 THEN ListLoop(rest, removed,
                               Append(final, cache_map[resource.href]), fetch)
                 ELSE ListLoop(rest, removed, final, Append(fetch, resource.href))
            ELSE ListLoop(rest, cache_map, final, Append(fetch, resource.href))

\* faulty variant: the cached tasks the listing did not name are kept
PartitionKeepStale(resources, cached) ==
    LET r == ListLoop(resources, CacheMapOf(cached), <<>>, <<>>)
        RECURSIVE Left(_)
        Left(ts) == IF ts = <<>> THEN <<>>
                    ELSE IF Head(ts).href \in DOMAIN r.cache_map
                    THEN <<Head(ts)>> \o Left(Tail(ts))
                    ELSE Left(Tail(ts))
    IN [r EXCEPT !.final_tasks = r.final_tasks \o Left(cached)]

\* get_tasks from Cache::load to the end of the loop over the listing
Partition(resources, cached) ==
    ListLoop(resources, CacheMapOf(cached), <<>>, <<>>)

\* the server's answer to GetCalendarResources::with_hrefs(hrefs): one item
\* per href it holds; item.content is Err for a resource it cannot give
RECURSIVE MultigetAnswer(_, _)
MultigetAnswer(resources, hrefs) ==
    IF hrefs = <<>> THEN <<>>
    ELSE LET rs == { i \in 1..Len(resources) : resources[i].href = Head(hrefs) }
         IN (IF rs = {} THEN <<>> ELSE <<resources[CHOOSE i \in rs : TRUE]>>)
            \o MultigetAnswer(resources, Tail(hrefs))

\* faulty variant: the first item that does not decode ends the loop
RECURSIVE DecodeUntilError(_, _)
DecodeUntilError(items, calendar_href) ==
    IF items = <<>> THEN <<>>
    ELSE IF Head(items).body = "missing"
            \/ from_ics(Head(items), ContentEtag(Head(items)), Head(items).href,
                        calendar_href) = <<>>
    THEN <<>>
    ELSE from_ics(Head(items), ContentEtag(Head(items)), Head(items).href,
                  calendar_href)
         \o DecodeUntilError(Tail(items), calendar_href)

\* for item in fetched_resp.resources { if let Ok(content) .. if let Ok(task) .. }
RECURSIVE Decode(_, _)
Decode(items, calendar_href) ==
    IF items = <<>> THEN <<>>
    ELSE (IF Head(items).body = "missing" THEN <<>>
          ELSE from_ics(Head(items), ContentEtag(Head(items)), Head(items).href,
                        calendar_href))
         \o Decode(Tail(items), calendar_href)

\* a file of the cache directory: absent, unreadable (read_to_string
\* fails), garbage (text that is not JSON of a known shape), old (a task
\* cache written as a bare list), or whole; content is what a whole or
\* old file holds
File(form, content) == [form |-> form, content |-> content]

\* a Result: Ok(val) or Err
Ok(val) == [ok |-> TRUE, val |-> val]
Err == [ok |-> FALSE, val |-> <<>>]
unwrap_or_default(r) == IF r.ok THEN r.val ELSE <<>>

\* Cache::load(key): Ok(empty) when the file is absent; the read error
\* of read_to_string is passed on by `?`; the tasks of a CalendarCache
\* or of a bare list; Ok(empty) when the text is neither
CacheLoad(file) ==
    IF file.form = "absent" THEN Ok(<<>>)
    ELSE IF file.form = "unreadable" THEN Err
    ELSE IF file.form = "whole" THEN Ok(file.content)
    ELSE IF file.form = "old" THEN Ok(file.content)
    ELSE Ok(<<>>)

\* Cache::load_calendars(): Ok(empty) when the file is absent; the read
\* error and the error of serde_json::from_str are passed on by `?`
load_calendars(file) ==
    IF file.form = "absent" THEN Ok(<<>>)
    ELSE IF file.form = "unreadable" THEN Err
    ELSE IF file.form = "whole" THEN Ok(file.content)
    ELSE Err

\* ghost: what a call of get_tasks returned, what it took from the cache and
\* asked the server for, and the cache file it leaves
Returned(cal, outcome, tasks, reused, fetched) ==
    [cal |-> cal, ret |-> outcome, tasks |-> tasks, reused |-> reused,
     fetched |-> fetched,
     cache |-> unwrap_or_default(CacheLoad(cachefile))]

\* calendar_href == LOCAL_CALENDAR_HREF: return LocalStorage::load()
GtLocal ==
    /\ gpc = "idle"
    /\ Len(hist) < MaxGets
    /\ hist' = Append(hist, Returned(LOCAL_CALENDAR_HREF, "Ok", LocalLoad(local),
                                     <<>>, <<>>))
    /\ UNCHANGED <<coreVars, frontVars, crashVars, localVars, run2Vars, itemVars, gpc,
                   listing, cachefile, calfile, conn, final_tasks, to_fetch>>

\* no client (Err("Offline")), or the PROPFIND fails
GtListFail ==
    /\ gpc = "idle"
    /\ Len(hist) < MaxGets
    /\ hist' = Append(hist, Returned(Cal1, "Err", <<>>, <<>>, <<>>))
    /\ UNCHANGED <<coreVars, frontVars, crashVars, localVars, run2Vars, itemVars, gpc,
                   listing, cachefile, calfile, conn, final_tasks, to_fetch>>

\* sync_journal (the journal is empty), ListResources answered, Cache::load,
\* the loop over the listing; Ok(final_tasks) when to_fetch is empty
GtList ==
    /\ gpc = "idle"
    /\ Len(hist) < MaxGets
    /\ load_internal(disk) = <<>>
    /\ LET r == Partition(listing, unwrap_or_default(CacheLoad(cachefile)))
       IN /\ final_tasks' = r.final_tasks
          /\ to_fetch' = r.to_fetch
          /\ IF r.to_fetch = <<>>
             THEN /\ gpc' = "idle"
                  /\ hist' = Append(hist, Returned(Cal1, "Ok", r.final_tasks,
                                                   r.final_tasks, <<>>))
             ELSE /\ gpc' = "multiget"
                  /\ hist' = hist
    /\ UNCHANGED <<coreVars, frontVars, crashVars, localVars, run2Vars, itemVars,
                   listing, cachefile, calfile, conn>>

\* the multiget is answered: the items are decoded, Ok(final_tasks)
GtMultiget ==
    /\ gpc = "multiget"
    /\ LET tasks == final_tasks \o Decode(MultigetAnswer(listing, to_fetch), Cal1)
       IN /\ final_tasks' = tasks
          /\ hist' = Append(hist, Returned(Cal1, "Ok", tasks, final_tasks, to_fetch))
    /\ gpc' = "idle"
    /\ UNCHANGED <<coreVars, frontVars, crashVars, localVars, run2Vars, itemVars,
                   listing, cachefile, calfile, conn, to_fetch>>

\* the multiget fails: Err("MULTIGET: ..")
GtMultigetFail ==
    /\ gpc = "multiget"
    /\ hist' = Append(hist, Returned(Cal1, "Err", <<>>, final_tasks, to_fetch))
    /\ gpc' = "idle"
    /\ UNCHANGED <<coreVars, frontVars, crashVars, localVars, run2Vars, itemVars,
                   listing, cachefile, calfile, conn, final_tasks, to_fetch>>

\* a CalendarListEntry
CalendarListEntry(name, href) == [name |-> name, href |-> href]

\* e.contains(pat), an error message being the sequence of its pieces
contains(e, pat) == \E i \in 1..Len(e) : e[i] = pat

\* faulty variant: every failure of the calendar fetch goes offline
fetch_calendars_demoted(answer, file) ==
    IF answer.ok
    THEN [err |-> <<>>, calendars |-> answer.val, warning |-> <<>>]
    ELSE [err |-> <<>>, calendars |-> unwrap_or_default(load_calendars(file)),
          warning |-> <<"Offline Mode">>]

\* connect_with_fallback: match client.get_calendars().await; err is the
\* message of the early return
fetch_calendars(answer, file) ==
    IF answer.ok
    THEN [err |-> <<>>, calendars |-> answer.val, warning |-> <<>>]
    ELSE IF contains(answer.e, "InvalidCertificate")
    THEN [err |-> <<"Connection failed: ">> \o answer.e, calendars |-> <<>>,
          warning |-> <<>>]
    ELSE [err |-> <<>>, calendars |-> unwrap_or_default(load_calendars(file)),
          warning |-> <<"Offline Mode">>]

\* RustyClient::connect_with_fallback(config) when the program starts, the
\* journal empty: the calendars are fetched (and saved) or taken from
\* calendars.json, the active calendar is the configured one or the one
\* discovered, its tasks are fetched
ConnectWithFallback ==
    LET \* what get_calendars returns: Ok(calendars), or Err(format!("{:?}", e))
        Answers ==
            { [ok |-> TRUE, val |-> c, e |-> <<>>] :
                c \in {<<>>, <<CalendarListEntry("Work", Cal1)>>} }
            \cup
            { [ok |-> FALSE, val |-> <<>>, e |-> e] :
                e \in { <<"Request(", "Custom { kind: Other, error: ",
                          "InvalidCertificate", "(UnknownIssuer) })">>,
                        <<"Request(", "TimedOut", ")">>,
                        <<"BadStatusCode(", "401", ")">>,
                        <<"No principal">> } }
        \* get_tasks(h) from the first call to the last, with no interleaving
        get_tasks_of(h) ==
            LET r == Partition(listing, unwrap_or_default(CacheLoad(cachefile)))
            IN  r.final_tasks \o Decode(MultigetAnswer(listing, r.to_fetch), h)
    IN
    /\ gpc = "idle"
    /\ hist = <<>>
    /\ conn = <<>>
    /\ load_internal(disk) = <<>>
    /\ \E answer \in Answers,
          default_calendar \in {<<>>, <<"Work">>, <<"Home">>},
          discovered \in {Ok(Cal1), Err},
          listed \in BOOLEAN :
          LET f == fetch_calendars(answer, calfile)
              found == SelectSeq(f.calendars,
                           LAMBDA c : \/ <<c.name>> = default_calendar
                                      \/ <<c.href>> = default_calendar)
              configured == IF found # <<>> THEN <<found[1].href>> ELSE <<>>
              active_href == IF configured = <<>> /\ f.warning = <<>> /\ discovered.ok
                             THEN <<discovered.val>>
                             ELSE configured
              tasks == IF f.warning = <<>> /\ active_href # <<>> /\ listed
                       THEN get_tasks_of(active_href[1])
                       ELSE <<>>
          IN  IF f.err # <<>>
              THEN /\ conn' = <<[ok |-> FALSE, err |-> f.err, calendars |-> <<>>,
                                 tasks |-> <<>>, active_href |-> <<>>,
                                 warning |-> <<>>, answer |-> answer]>>
                   /\ calfile' = calfile
              ELSE /\ conn' = <<[ok |-> TRUE, err |-> <<>>,
                                 calendars |-> f.calendars, tasks |-> tasks,
                                 active_href |-> active_href,
                                 warning |-> f.warning, answer |-> answer]>>
                   /\ calfile' = IF answer.ok THEN File("whole", answer.val)
                                 ELSE calfile
    /\ UNCHANGED <<coreVars, frontVars, crashVars, localVars, run2Vars, itemVars,
                   gpc, listing, cachefile, final_tasks, to_fetch, hist>>

(***************************************************************************)
(* Specifications                                                          *)
(***************************************************************************)
\* the parts of the state a specification does not use stay as they are
\* when nothing runs: no front end at work (nothing held, local.json
\* absent), no write looked at step by step, no concurrent calls on the
\* local calendar, no second run, no get_tasks; g names the part the
\* specification sets itself
IdleBut(g) ==
    /\ IF g = "front" \/ g = "local" THEN TRUE
       ELSE /\ local = <<>>
            /\ held = {}
            /\ calls = 0
    /\ IF g = "crash" THEN TRUE
       ELSE /\ files = [f \in JournalFiles |-> AbsentFile]
            /\ cpc = "idle"
            /\ contents = <<>>
            /\ prev = AbsentFile
            /\ reloaded = <<>>
            /\ writes = 0
    /\ IF g = "local" THEN TRUE
       ELSE /\ lpc = [p \in Pushers |-> "idle"]
            /\ lloaded = [p \in Pushers |-> <<>>]
            /\ larg = [p \in Pushers |-> NoCall]
            /\ local0 = <<>>
    /\ IF g = "run2" THEN TRUE
       ELSE /\ run2 = [pc |-> "idle", journal |-> <<>>, action |-> <<>>,
                       conflict |-> <<>>, result |-> "none"]
            /\ sent2 = <<>>
    /\ IF g = "fetch" THEN TRUE
       ELSE /\ gpc = "idle"
            /\ listing = <<>>
            /\ cachefile = File("absent", <<>>)
            /\ calfile = File("absent", <<>>)
            /\ conn = <<>>
            /\ final_tasks = <<>>
            /\ to_fetch = <<>>
            /\ hist = <<>>
    /\ IF g = "item" THEN TRUE
       ELSE /\ ipc = "idle"
            /\ input = <<>>
            /\ aliases = <<>>
            /\ served = <<>>
            /\ item = <<>>
            /\ ics = <<>>
            /\ decoded = <<>>
            /\ smart = <<>>
            /\ reparsed = <<>>
            /\ spawned = <<>>
            /\ store = <<>>
            /\ walk = <<>>
            /\ rows = <<>>

InitExt == IdleBut("none")

InitCommon ==
    /\ lock = "free"
    /\ mpc = [p \in Procs |-> "idle"]
    /\ mloaded = [p \in Procs |-> <<>>]
    /\ marg = [p \in Procs |-> NoArg]
    /\ journal = <<>>
    /\ action = <<>>
    /\ conflict = <<>>
    /\ result = "none"
    /\ ret = "none"
    /\ nextEtag = ServerEtag + 1
    /\ nextUuid = 0
    /\ nextAid = 101
    /\ sent = <<>>
    /\ disk0 = disk
    /\ server0 = server
    /\ behind = <<>>
    /\ saved = FALSE
    /\ pushedIn = [p \in Pushers |-> FALSE]

\* one sync run against a journal left by earlier calls
Init ==
    /\ disk \in InitJournals
    /\ server \in InitServers
    /\ pc = "start"
    /\ InitCommon
    /\ InitExt

SyncStep ==
    \/ SyncLoad
    \/ Dequeue
    \/ LoopExit
    \/ Respond
    \/ RespondError
    \/ HandleOk
    \/ HandleConflict
    \/ HandleErr
    \/ PushFrontReload
    \/ Save

Next ==
    \/ SyncStep
    \/ ModifyAcquire("sync")
    \/ ModifyLoad("sync")
    \/ ModifyWrite("sync")
    \/ ModifyRelease("sync")

Spec == Init /\ [][Next]_vars

\* get_tasks and connect_with_fallback call sync_journal each time they run:
\* a run that returned is followed by another one, with a fresh Journal::load
SyncAgain ==
    /\ pc = "done"
    /\ calls < MaxCalls
    /\ calls' = calls + 1
    /\ pc' = "start"
    /\ journal' = <<>>
    /\ action' = <<>>
    /\ conflict' = <<>>
    /\ result' = "none"
    /\ ret' = "none"
    /\ behind' = <<>>
    /\ saved' = FALSE
    /\ UNCHANGED <<crashVars, localVars, run2Vars, fetchVars, itemVars, local,
                   held, fileVars, modVars, srvVars, nextUuid, nextAid, sent,
                   disk0, server0, pushedIn>>

\* sync runs one after another against a journal of one action nobody else
\* pushes to; a run that can take a step takes it, and the front end keeps
\* refreshing
InitRuns ==
    /\ disk \in { q \in InitJournals : Len(q) = 1 }
    /\ server \in InitServers
    /\ pc = "start"
    /\ InitCommon
    /\ InitExt

NextRuns ==
    \/ Next
    \/ SyncAgain

SpecRuns == InitRuns /\ [][NextRuns]_vars /\ WF_vars(NextRuns)

\* two processes call Journal::push on the same journal file; no sync runs
InitPush ==
    /\ disk \in {<<>>} \cup InitJournals
    /\ server \in InitServers
    /\ pc = "idle"
    /\ InitCommon
    /\ InitExt

PushStep(p) ==
    \/ Push(p)
    \/ ModifyAcquire(p)
    \/ ModifyLoad(p)
    \/ ModifyWrite(p)
    \/ ModifyRelease(p)

NextPush == \E p \in Pushers : PushStep(p)

SpecPush == InitPush /\ [][NextPush]_vars

\* a sync run while another process calls Journal::push
InitConc ==
    /\ disk \in { q \in InitJournals : \A i \in 1..Len(q) : q[i].task.uid = "u1" }
    /\ server \in InitServers
    /\ pc = "start"
    /\ InitCommon
    /\ InitExt

NextConc ==
    \/ Next
    \/ PushStep("p1")

SpecConc == InitConc /\ [][NextConc]_vars

\* the front end makes its calls while disconnected, holding a task fetched
\* earlier; then the journal is synced
InitFront ==
    /\ disk = <<>>
    /\ server \in InitServers
    /\ pc = "idle"
    /\ InitCommon
    /\ IdleBut("front")
    /\ local = <<>>
    /\ held = { Task("u2", "Remote", full_href(Cal1, "u2"), Cal1, ServerEtag) }
    /\ calls = 0

NextFront ==
    \/ FrontCreate
    \/ FrontUpdate
    \/ FrontDelete
    \/ FrontToggle
    \/ FrontMove
    \/ SyncOffline
    \/ Connect
    \/ Next

SpecFront == InitFront /\ [][NextFront]_vars


\* journal writes with crashes, from an absent or a written journal file
InitCrash ==
    /\ disk = <<>>
    /\ server \in {[h \in AllHrefs |-> Absent]}
    /\ pc = "idle"
    /\ InitCommon
    /\ IdleBut("crash")
    /\ files \in { [f \in JournalFiles |->
                      IF f = JournalPath THEN j ELSE AbsentFile] :
                   j \in {AbsentFile} \cup
                        { WholeFile(q) : q \in { x \in InitJournals :
                              \A i \in 1..Len(x) : x[i].task.uid = "u2" } } }
    /\ cpc = "idle"
    /\ contents = <<>>
    /\ prev = files[JournalPath]
    /\ reloaded = <<>>
    /\ writes = 0

NextCrash ==
    \/ CrModify
    \/ CrCreate
    \/ CrFill
    \/ CrRename
    \/ Crash
    \/ CrashAfterRename
    \/ CrReload
    \/ CrResume

SpecCrash == InitCrash /\ [][NextCrash]_vars

\* two processes each make one call on the local calendar
InitLocal ==
    /\ disk = <<>>
    /\ server \in {[h \in AllHrefs |-> Absent]}
    /\ pc = "idle"
    /\ InitCommon
    /\ IdleBut("local")
    /\ held = {}
    /\ calls = 0
    /\ local \in { <<>>, <<LocalTask("u1")>>, <<LocalTask("u1"), LocalTask("u2")>> }
    /\ local0 = local
    /\ lpc = [p \in Pushers |-> "idle"]
    /\ lloaded = [p \in Pushers |-> <<>>]
    /\ larg = [p \in Pushers |-> NoCall]

NextLocal == \E p \in Pushers : LocalBegin(p) \/ LocalSave(p)

SpecLocal == InitLocal /\ [][NextLocal]_vars

\* get_all_tasks over two calendars: both get_tasks start sync_journal, with
\* one action in the journal
InitAll ==
    /\ disk \in { WithAids(<<a>>) :
                    a \in { x \in InitActions :
                               /\ x.task.uid = "u1"
                               /\ \/ x.kind = "Create"
                                  \/ x.kind = "Update" /\ x.task.etag = StaleEtag
                                  \/ x.kind = "Delete" /\ x.task.etag = ServerEtag } }
    /\ server \in { s \in InitServers : /\ s[full_href(Cal1, "u1")].exists
                                         /\ ~s[full_href(Cal1, "u2")].exists }
    /\ pc = "start"
    /\ InitCommon
    /\ IdleBut("run2")
    /\ run2 = [pc |-> "start", journal |-> <<>>, action |-> <<>>,
               conflict |-> <<>>, result |-> "none"]
    /\ sent2 = <<>>

NextAll ==
    \/ Next
    \/ R2Load
    \/ R2Dequeue
    \/ R2LoopExit
    \/ R2Respond
    \/ R2RespondError
    \/ R2Handle
    \/ R2Save

SpecAll == InitAll /\ [][NextAll]_vars

\* the listings a server can give for /cal1/: the collection itself and a
\* file that is no task, and each task resource absent or present
ListedAs(uid) ==
    {<<>>} \cup
    { <<Listed(full_href(Cal1, uid), he[1], he[2], b, uid)>> :
        he \in {<<FALSE, NoEtag>>, <<TRUE, NoEtag>>, <<TRUE, StaleEtag>>,
                <<TRUE, ServerEtag>>},
        b \in {"vtodo", "no_master", "garbage"} }

Listings ==
    { <<Listed(Cal1, FALSE, NoEtag, "missing", "")>> \o r1 \o r2 \o r3
      \o <<Listed(Cal1 \o <<"notes.txt">>, TRUE, StaleEtag, "garbage", "")>> :
        r1 \in ListedAs("u1"),
        r2 \in ListedAs("u2"),
        r3 \in {<<>>, <<Listed(full_href(Cal1, "u3"), TRUE, StaleEtag, "vtodo", "u3")>>} }

\* the cache files: each task cached or not; u4 is never listed
CachedAs(uid, etags) ==
    {<<>>} \cup { <<Task(uid, "Cached", full_href(Cal1, uid), Cal1, e)>> : e \in etags }

CacheFiles ==
    { File("whole", c1 \o c2 \o c3 \o c4) :
        c1 \in CachedAs("u1", {StaleEtag, ServerEtag}),
        c2 \in CachedAs("u2", {StaleEtag}),
        c3 \in CachedAs("u3", {StaleEtag}),
        c4 \in CachedAs("u4", {StaleEtag}) }
    \cup { File("old", c1) : c1 \in CachedAs("u1", {StaleEtag, ServerEtag}) }
    \cup { File(form, <<>>) : form \in {"absent", "unreadable", "garbage"} }

\* calendars.json: absent, not readable, not JSON, or a list of calendars
CalendarFiles ==
    { File(form, <<>>) : form \in {"absent", "unreadable", "garbage"} }
    \cup { File("whole", c) :
              c \in { <<>>, <<CalendarListEntry("Work", Cal1)>>,
                      <<CalendarListEntry("Home", Cal2),
                        CalendarListEntry("Work", Cal1)>> } }

\* get_tasks called on a calendar, the journal empty: in a program that
\* connected before (every listing and cache file), or in a program that
\* starts (every calendars.json, one task on the server, at most one in
\* the cache file)
InitFetch ==
    /\ disk = <<>>
    /\ server \in {[h \in AllHrefs |-> Absent]}
    /\ pc = "idle"
    /\ InitCommon
    /\ IdleBut("fetch")
    /\ gpc = "idle"
    /\ \/ /\ listing \in Listings
          /\ cachefile \in CacheFiles
          /\ calfile = File("whole", <<CalendarListEntry("Work", Cal1)>>)
          /\ conn = <<[ok |-> TRUE, err |-> <<>>,
                       calendars |-> <<CalendarListEntry("Work", Cal1)>>,
                       tasks |-> <<>>, active_href |-> <<Cal1>>,
                       warning |-> <<>>,
                       answer |-> [ok |-> TRUE, e |-> <<>>,
                                   val |-> <<CalendarListEntry("Work", Cal1)>>]]>>
       \/ /\ listing \in { l \in Listings :
                              Len(l) = 3 /\ l[2].uid = "u1" /\ l[2].body = "vtodo" }
          /\ cachefile \in { c \in CacheFiles :
                                c.form # "whole" \/ Len(c.content) <= 1 }
          /\ calfile \in CalendarFiles
          /\ conn = <<>>
    /\ final_tasks = <<>>
    /\ to_fetch = <<>>
    /\ hist = <<>>

NextFetch ==
    \/ GtLocal
    \/ GtListFail
    \/ GtList
    \/ GtMultiget
    \/ GtMultigetFail
    \/ ConnectWithFallback

SpecFetch == InitFetch /\ [][NextFetch]_vars

\* the front-end calls with the sync run, or get_tasks and
\* connect_with_fallback: every place a task comes from
SpecFrontFetch ==
    /\ InitFront \/ InitFetch
    /\ [][\/ listing = <<>> /\ NextFront
          \/ listing # <<>> /\ NextFetch]_vars

(***************************************************************************)
(* Properties                                                              *)
(***************************************************************************)
Upd412(k) == sent[k].req.kind = "Update" /\ sent[k].status = "412"
Upd404(k) == sent[k].req.kind = "Update" /\ sent[k].status = "404"
Failed(k) == ResultOf(sent[k].req.kind, sent[k].status) = "Err"
NoTransportError == \A k \in 1..Len(sent) : sent[k].status # "err"
UidsOf(q) == { q[i].task.uid : i \in 1..Len(q) }

\* c is a conflict copy of t: fresh uid, marked summary, no href, no etag
IsCopyOf(c, t) ==
    /\ c.uid # t.uid
    /\ c.uid \notin UidsOf(disk0)
    /\ c.summary = t.summary \o " (Conflict Copy)"
    /\ c.href = <<>>
    /\ c.etag = 0
    /\ c.calendar_href = t.calendar_href

\* C1: when Update(t) is answered 412, a Create of a clone of t (fresh uid,
\* summary t.summary + " (Conflict Copy)", empty href and etag) is at the
\* head of the journal file once the answer is handled, and that Create is
\* the request sent next, before anything queued behind the Update.
C1_ConflictCopyAtHead ==
    \A k \in 1..Len(sent) :
        Upd412(k) =>
            /\ (k = Len(sent) /\ pc = "loop") =>
                  /\ disk # <<>>
                  /\ Head(disk).kind = "Create"
                  /\ IsCopyOf(Head(disk).task, sent[k].task)
            /\ k < Len(sent) =>
                  /\ sent[k + 1].req.kind = "Create"
                  /\ sent[k + 1].req.cond = "If-None-Match"
                  /\ IsCopyOf(sent[k + 1].task, sent[k].task)
                  /\ sent[k + 1].req.uid = sent[k + 1].task.uid
                  /\ sent[k + 1].req.summary = sent[k + 1].task.summary

\* a 412 on the first of two queued actions, the copy created on the server
C1_Witness ==
    /\ Len(disk0) = 2
    /\ Len(sent) >= 2
    /\ Upd412(1)
    /\ sent[2].status = "2xx"
    /\ pc = "loop"

\* the journal holds only Update(t) with a stale etag, the server holds t's
\* resource under another etag and answers every request
C2_Scenario ==
    /\ Len(disk0) = 1
    /\ disk0[1].kind = "Update"
    /\ disk0[1].task.etag = StaleEtag
    /\ ServerGet(server0, disk0[1].task.href).exists
    /\ NoTransportError

NumSent(kind) == Cardinality({ k \in 1..Len(sent) : sent[k].req.kind = kind })

\* C2: from a journal holding only Update(t) with a stale etag, against a
\* server answering 412 to the update and 201 to creates, the run returns
\* Ok, the update is sent exactly once, exactly one Create (the conflict
\* copy) is sent, and the journal is empty when the run ends.
C2_RecoversFrom412 ==
    C2_Scenario =>
        /\ NumSent("Update") <= 1
        /\ NumSent("Create") <= 1
        /\ pc = "done" =>
              /\ ret = "Ok"
              /\ NumSent("Update") = 1
              /\ NumSent("Create") = 1
              /\ disk = <<>>

\* the journal is [Move(t, new_cal), Update(t)], the Update carrying t's old
\* href, and the MOVE succeeded
C3_Scenario ==
    /\ Len(disk0) = 2
    /\ disk0[1].kind = "Move"
    /\ disk0[2].kind = "Update"
    /\ disk0[2].task.uid = disk0[1].task.uid
    /\ disk0[2].task.href = disk0[1].task.href
    /\ Len(sent) >= 1
    /\ sent[1].status = "2xx"
    /\ NoTransportError

\* C3: with journal [Move(t, new_cal), Update(t)], once the MOVE succeeded
\* the Update's PUT goes to new_cal/<uid>.ics and not to the old href; both
\* requests are sent and the journal is empty after the run.
C3_UpdateFollowsMove ==
    C3_Scenario =>
        /\ \A k \in 1..Len(sent) :
              sent[k].req.kind = "Update" =>
                 /\ sent[k].req.href = full_href(disk0[1].dest, disk0[1].task.uid)
                 /\ sent[k].req.href # disk0[2].task.href
        /\ pc = "done" => (NumSent("Update") >= 1 /\ disk = <<>>)

\* C4: when an action's request fails with a non-terminal error the run
\* stops without sending any later action, and the journal file afterwards
\* is exactly the failed action followed by the actions that were queued
\* behind it, each once and in their original order.
C4_FailedActionBackAtHead ==
    (pc = "done" /\ result = "Err") =>
        /\ sent[Len(sent)].aid = action[1].aid
        /\ disk = action \o behind

HasAid(q, aid) == \E i \in 1..Len(q) : q[i].aid = aid

\* C5: an action pushed with Journal::push by another process after the
\* run's initial load and before any of its saves is never lost: when the
\* run ends it is still in the journal file or its request has been sent.
C5_PushedActionNotLost ==
    \A p \in Pushers :
        (pc = "done" /\ mpc[p] = "done" /\ pushedIn[p]) =>
            (HasAid(disk, PushAid(p)) \/ HasAid(sent, PushAid(p)))

\* C6: after two concurrent Journal::push calls, in every interleaving, the
\* journal holds every previously queued action in the original order
\* followed by the two pushed actions, each exactly once.
C6_BothPushesKept ==
    (mpc["p1"] = "done" /\ mpc["p2"] = "done") =>
        /\ Len(disk) = Len(disk0) + 2
        /\ SubSeq(disk, 1, Len(disk0)) = disk0
        /\ { disk[Len(disk0) + 1], disk[Len(disk0) + 2] }
              = { marg["p1"].action[1], marg["p2"].action[1] }
        /\ disk[Len(disk0) + 1].aid # disk[Len(disk0) + 2].aid

\* both pushes done on a non-empty journal, the second caller's entry first
C6_Witness ==
    /\ mpc["p1"] = "done"
    /\ mpc["p2"] = "done"
    /\ Len(disk0) >= 1
    /\ Len(disk) = Len(disk0) + 2
    /\ disk[Len(disk)].aid = PushAid("p1")

IsOriginal(aid) == aid \in 1..Len(disk0)
IsReplacement(aid) == aid > 100
Answered(k) == sent[k].status # "pending"

\* C7: within one run requests are sent in journal order: b's request is not
\* sent before the request of every action a ahead of it has been answered,
\* a replacement created for a is the request that follows a's (so it goes
\* out before b), and after a failed request nothing more is sent in that
\* run.
C7_RequestsInJournalOrder ==
    \A k \in 1..Len(sent) :
        /\ k < Len(sent) => Answered(k)
        /\ IsOriginal(sent[k].aid) =>
              \A a \in 1..(sent[k].aid - 1) :
                  \E j \in 1..(k - 1) : sent[j].aid = a /\ Answered(j)
        /\ (k < Len(sent) /\ (Upd412(k) \/ Upd404(k))) =>
              /\ IsReplacement(sent[k + 1].aid)
              /\ sent[k + 1].req.kind = "Create"
        /\ (Answered(k) /\ Failed(k)) => k = Len(sent)

\* the two actions of a journal sent in turn, the second one failing and
\* ending the run
C7_Witness ==
    /\ Len(disk0) = 2
    /\ Len(sent) = 2
    /\ sent[1].aid = 1 /\ sent[1].status = "2xx"
    /\ sent[2].aid = 2 /\ Failed(2)
    /\ pc = "done"

InQueue(q, a) == \E i \in 1..Len(q) : q[i] = a

\* C8: at every point of a run, the action in flight is at the head of the
\* journal file, and every action whose request has not been answered yet
\* (still in the in-memory queue, or loaded and never sent) is in the file.
C8_UnansweredStillOnDisk ==
    /\ pc = "inflight" => (disk # <<>> /\ Head(disk) = action[1])
    /\ pc \in {"loop", "inflight", "handle", "push_front", "save"} =>
          /\ \A i \in 1..Len(journal) : InQueue(disk, journal[i])
          /\ \A i \in 1..Len(disk0) :
                (~\E k \in 1..Len(sent) : sent[k].aid = i /\ Answered(k))
                    => InQueue(disk, disk0[i])

\* the second action of the journal in flight, the first one committed
C8_Witness ==
    /\ pc = "inflight"
    /\ Len(disk0) = 2
    /\ action[1].aid = 2
    /\ sent[1].status = "2xx"

C10_UpdateReplacedByCreate ==
    \A k \in 1..Len(sent) :
        Upd404(k) =>
            /\ k < Len(sent) =>
                  /\ sent[k + 1].req.kind = "Create"
                  /\ sent[k + 1].req.cond = "If-None-Match"
                  /\ sent[k + 1].task = sent[k].task
                  /\ sent[k + 1].req.href
                        = full_href(sent[k].task.calendar_href, sent[k].task.uid)
            /\ \A j \in (k + 1)..Len(sent) : sent[j].aid # sent[k].aid
            /\ (k = Len(sent) /\ pc = "loop") =>
                  /\ disk # <<>>
                  /\ Head(disk).kind = "Create"
                  /\ Head(disk).task = sent[k].task
                  /\ Tail(disk) = behind

\* C11: no update PUT (If-Match) is sent for a task whose etag is empty:
\* after create_task and update_task calls made while disconnected, every
\* request of the run for a task without an etag is a create PUT
\* (If-None-Match: *).
C11_NoUpdateWithoutEtag ==
    (\A i \in 1..Len(disk0) : disk0[i].kind \in {"Create", "Update"}) =>
        \A k \in 1..Len(sent) :
            sent[k].task.etag = NoEtag =>
                /\ sent[k].req.kind = "Create"
                /\ sent[k].req.cond = "If-None-Match"

Del404or412(k) == sent[k].req.kind = "Delete" /\ sent[k].status \in {"404", "412"}

C13_JournalNeverTorn ==
    /\ files[JournalPath].state # "torn"
    /\ files[JournalPath] \in {prev, WholeFile(contents)}
    /\ cpc = "restarted" => reloaded \in {load_file(prev), contents}

\* a crash while the temporary file was being written, on top of a written
\* journal: the load after the restart gives the previous queue
C13_Witness ==
    /\ cpc = "restarted"
    /\ files[with_extension(JournalPath, "tmp")].state = "torn"
    /\ prev.state = "whole"
    /\ Len(prev.queue) >= 1
    /\ reloaded = prev.queue
    /\ reloaded # contents

\* C14: whatever calls the front end makes (create_task, update_task,
\* delete_task, toggle_task, move_task), no action that names the calendar
\* local://default, as the calendar of its task or as the destination of a
\* Move, is in the journal file or is sent to the server.
C14_LocalNeverJournalled ==
    /\ \A i \in 1..Len(disk) :
          /\ disk[i].task.calendar_href # LOCAL_CALENDAR_HREF
          /\ disk[i].dest # LOCAL_CALENDAR_HREF
    /\ \A k \in 1..Len(sent) :
          /\ sent[k].task.calendar_href # LOCAL_CALENDAR_HREF
          /\ sent[k].req.dest # full_href(LOCAL_CALENDAR_HREF, sent[k].req.uid)

\* C15: two concurrent calls on tasks of the local-only calendar are
\* serialised: once both have returned, local.json is what the two calls
\* give when made one after the other, in one order or the other, so it
\* reflects both and neither overwrote the other's effect.
C15_BothLocalCallsKept ==
    (lpc["p1"] = "done" /\ lpc["p2"] = "done") =>
        local \in { ApplyLocal(larg["p2"], ApplyLocal(larg["p1"], local0)),
                    ApplyLocal(larg["p1"], ApplyLocal(larg["p2"], local0)) }

AidsSent == { sent[k].aid : k \in 1..Len(sent) } \cup { sent2[k].aid : k \in 1..Len(sent2) }

\* C16: with the sync_journal runs that the get_tasks calls of
\* get_all_tasks start, at most one request of a journal action is in
\* flight at any time, and no journal action is sent to the server twice.
C16_OneRequestAtATime ==
    /\ ~(pc = "inflight" /\ run2.pc = "inflight")
    /\ Cardinality(AidsSent) = Len(sent) + Len(sent2)

SeqSet(s) == { s[i] : i \in 1..Len(s) }
CachedAt(cache, h) == { t \in SeqSet(cache) : t.href = h }
ListedIcs == { r \in SeqSet(listing) : ends_with_ics(r.href) }

\* the listed .ics hrefs with no cached task, or a cached etag that differs
\* from the listed one, or a listed etag that is missing or empty
MustFetch(cache) ==
    { r.href : r \in { x \in ListedIcs :
                         \/ CachedAt(cache, x.href) = {}
                         \/ ~x.has_etag
                         \/ x.etag = NoEtag
                         \/ \E t \in CachedAt(cache, x.href) : t.etag # x.etag } }

\* the cached tasks whose etag is the non-empty etag listed for their href
Fresh(cache) ==
    { t \in SeqSet(cache) :
        \E r \in ListedIcs :
            r.href = t.href /\ r.has_etag /\ r.etag # NoEtag /\ r.etag = t.etag }

\* the call went as far as the loop over the listing
Listed1(k) == hist[k].cal = Cal1 /\ (hist[k].ret = "Ok" \/ hist[k].fetched # <<>>)
ReturnedOk(k) == hist[k].cal = Cal1 /\ hist[k].ret = "Ok"

\* C17: get_tasks issues a multiget for exactly the listed .ics hrefs that
\* have no cached task, whose cached etag differs from the listed etag, or
\* whose listed etag is missing or empty, each once; the hrefs whose cached
\* etag equals the non-empty listed etag are served from the cache; and no
\* multiget is issued when there is nothing to fetch.
C17_FetchesExactlyChanged ==
    /\ gpc = "multiget" =>
          /\ to_fetch # <<>>
          /\ SeqSet(to_fetch) = MustFetch(unwrap_or_default(CacheLoad(cachefile)))
          /\ SeqSet(final_tasks) = Fresh(unwrap_or_default(CacheLoad(cachefile)))
    /\ \A k \in 1..Len(hist) :
          Listed1(k) =>
              /\ SeqSet(hist[k].fetched) = MustFetch(hist[k].cache)
              /\ Cardinality(SeqSet(hist[k].fetched)) = Len(hist[k].fetched)
              /\ SeqSet(hist[k].reused) = Fresh(hist[k].cache)

\* one call served u3 from the cache and fetched u1, whose listed etag
\* differs from the cached one, and u2, whose listed etag is missing
C17_Witness ==
    /\ Len(hist) >= 1
    /\ ReturnedOk(1)
    /\ hist[1].fetched = <<full_href(Cal1, "u1"), full_href(Cal1, "u2")>>
    /\ \E t \in SeqSet(hist[1].reused) : t.uid = "u3"
    /\ \E t \in SeqSet(hist[1].cache) : t.uid = "u1" /\ t.etag = StaleEtag
    /\ \E r \in ListedIcs : r.uid = "u1" /\ r.has_etag /\ r.etag = ServerEtag
    /\ \E t \in SeqSet(hist[1].cache) : t.uid = "u2"
    /\ \E r \in ListedIcs : r.uid = "u2" /\ ~r.has_etag

\* C18: after get_tasks returns Ok the cache file of the calendar holds
\* exactly the returned list, tasks and etags, and the next get_tasks against
\* the unchanged listing fetches nothing.
C18_CacheHoldsReturnedList ==
    \A k \in 1..Len(hist) :
        ReturnedOk(k) =>
            /\ hist[k].cache = hist[k].tasks
            /\ (k < Len(hist) /\ hist[k + 1].cal = Cal1) => hist[k + 1].fetched = <<>>

\* C19: the list get_tasks returns holds no task whose href the listing does
\* not name: every returned task has a listed href ending in .ics, and a
\* cached task that is missing from the listing is not returned.
C19_OnlyListedReturned ==
    \A k \in 1..Len(hist) :
        ReturnedOk(k) =>
            /\ \A t \in SeqSet(hist[k].tasks) :
                  /\ \E r \in SeqSet(listing) : r.href = t.href
                  /\ ends_with_ics(t.href)
            /\ \A t \in SeqSet(hist[k].cache) :
                  (~\E r \in SeqSet(listing) : r.href = t.href)
                      => t \notin SeqSet(hist[k].tasks)
            /\ \A t \in SeqSet(hist[k].reused) :
                  \E r \in ListedIcs : r.href = t.href

\* the cache holds u4, which the listing does not name, and u3, which is
\* served from the cache: the call returns u3 and not u4
C19_Witness ==
    /\ Len(hist) >= 1
    /\ ReturnedOk(1)
    /\ \E t \in SeqSet(hist[1].cache) : t.uid = "u4"
    /\ \E t \in SeqSet(hist[1].tasks) : t.uid = "u3" /\ t.summary = "Cached"
    /\ \A t \in SeqSet(hist[1].tasks) : t.uid # "u4"

ResourceAt(h) == CHOOSE r \in SeqSet(listing) : r.href = h

\* C20: when a body of the multiget answer does not decode (no master
\* VTODO, or a VCALENDAR that does not parse), get_tasks still returns Ok
\* with every task served from the cache and every fetched task that does
\* decode (its href, the etag of its content); only the resources that
\* failed are left out.
C20_BadBodySkipped ==
    \A k \in 1..Len(hist) :
        (ReturnedOk(k) /\ hist[k].fetched # <<>>) =>
            /\ SeqSet(hist[k].reused) \subseteq SeqSet(hist[k].tasks)
            /\ \A h \in SeqSet(hist[k].fetched) :
                  IF ResourceAt(h).body = "vtodo"
                  THEN Task(ResourceAt(h).uid, "Remote", h, Cal1,
                            ContentEtag(ResourceAt(h))) \in SeqSet(hist[k].tasks)
                  ELSE \A t \in SeqSet(hist[k].tasks) : t.href # h
            /\ Len(hist[k].tasks) = Cardinality(SeqSet(hist[k].tasks))

\* the body of u1 does not parse, u2 is fetched and decodes, u3 is served
\* from the cache: the call returns u2 and u3
C20_Witness ==
    /\ Len(hist) >= 1
    /\ ReturnedOk(1)
    /\ hist[1].fetched = <<full_href(Cal1, "u1"), full_href(Cal1, "u2")>>
    /\ ResourceAt(full_href(Cal1, "u1")).body = "garbage"
    /\ ResourceAt(full_href(Cal1, "u2")).body = "vtodo"
    /\ { t.uid : t \in SeqSet(hist[1].tasks) } = {"u2", "u3"}
    /\ \E t \in SeqSet(hist[1].reused) : t.uid = "u3"

(***************************************************************************)
(* The task model (model/parser.rs, model/adapter.rs).  A text is the      *)
(* sequence of its whitespace-separated words and a word is a string:      *)
(* split_whitespace() and join(" ") are then the identity on texts.  A     *)
(* word is taken apart by looking for the pieces that spell it.            *)
(***************************************************************************)
\* longest line typed, in words
MaxTokens == 3

\* the numbers a word can spell
Spellable == 0..3 \cup {12, 300}
\* the day the program runs (Local::now().date_naive()), as a day of
\* January 2024; the days NaiveDate::parse_from_str can read
Today == 1
Days == 1..31
\* the tag names that occur, in lexicographic order
TagOrder == <<"code", "focus", "work">>
\* "%Y-%m-%d" and "%Y%m%d" of a day of January 2024
fmt_dash(d) == "2024-01-" \o (IF d < 10 THEN "0" ELSE "") \o ToString(d)
fmt_ymd(d) == "202401" \o (IF d < 10 THEN "0" ELSE "") \o ToString(d)
\* "%H%M%S" of the times of day that occur, by second of the day
fmt_hms == (0 :> "000000") @@ (32400 :> "090000") @@ (86399 :> "235959")

\* s.parse::<u32>(): 0 or 1 numbers
parse_num(s) ==
    IF \E n \in Spellable : ToString(n) = s
    THEN <<CHOOSE n \in Spellable : ToString(n) = s>>
    ELSE <<>>

\* s.parse::<u8>(): 0 or 1 numbers, none when the number is above 255
parse_u8(s) ==
    IF parse_num(s) # <<>> /\ parse_num(s)[1] <= 255 THEN parse_num(s) ELSE <<>>

\* word.strip_prefix(p): 0 or 1 strings.  The rest is looked for among
\* the strings that can follow a prefix in a word of Words
strip_prefix(word, p) ==
    LET Rests == {""} \cup {"daily", "weekly", "monthly", "yearly", "every",
                           "today", "tomorrow", "next", "s"}
                      \cup {TagOrder[i] : i \in 1..Len(TagOrder)}
                      \cup {fmt_dash(d) : d \in Days}
                      \cup {ToString(n) : n \in Spellable}
                      \cup {ToString(n) \o u : n \in Spellable,
                                               u \in {"m", "h", "d", "w", "mo", "y"}}
    IN  IF \E r \in Rests : word = p \o r
        THEN <<CHOOSE r \in Rests : word = p \o r>>
        ELSE <<>>

\* the default task the parser fills (Task::new); the fields of
\* model::item::Task as Task::from_ics builds them
NewItem(uid) ==
    [uid |-> uid, summary |-> <<>>, description |-> <<>>,
     status |-> "NeedsAction", estimated_duration |-> <<>>, due |-> <<>>,
     dtstart |-> <<>>, priority |-> 0, parent_uid |-> <<>>,
     dependencies |-> <<>>, etag |-> "", href |-> "", calendar_href |-> "",
     categories |-> <<>>, depth |-> 0, rrule |-> <<>>,
     unmapped_properties |-> <<>>, raw_components |-> <<>>]

\* a DateTime<Utc>: a day of January 2024 (later days count on) and the
\* second of the day
DateTime(day, secs) == [day |-> day, secs |-> secs]

\* faulty variant: a category is pushed whether or not it is there
push_always(categories, cat) == Append(categories, cat)

\* if !self.categories.contains(&cat) { self.categories.push(cat) }
push_unique(categories, cat) ==
    IF \E i \in 1..Len(categories) : categories[i] = cat
    THEN categories
    ELSE Append(categories, cat)

\* Task::apply_smart_input(&mut self, input, aliases)
apply_smart_input(task, line, al) ==
    LET RECURSIVE push_all(_, _)
        \* for extra_tag in expanded_tags { push unless contained }
        push_all(categories, expanded_tags) ==
            IF expanded_tags = <<>> THEN categories
            ELSE push_all(push_unique(categories, Head(expanded_tags)),
                          Tail(expanded_tags))
        RECURSIVE token_loop(_, _, _)
        \* the while-let loop over the peekable iterator tokens; self is the
        \* task, summary_words the words kept for the summary
        token_loop(self, summary_words, tokens) ==
            IF tokens = <<>> THEN [self EXCEPT !.summary = summary_words]
            ELSE
            LET word == Head(tokens)
                rest == Tail(tokens)
                bang == strip_prefix(word, "!")
                p == IF bang = <<>> THEN <<>> ELSE parse_u8(bang[1])
                dur_str == strip_prefix(word, "~")
                \* lower.strip_suffix(u) and n.parse::<u32>(): the suffixes are
                \* tried in the order m, h, d, w, mo, y
                times(u) == { n \in Spellable : dur_str[1] = ToString(n) \o u }
                minutes ==
                    IF dur_str = <<>> THEN <<>>
                    ELSE IF times("m") # {} THEN <<CHOOSE n \in times("m") : TRUE>>
                    ELSE IF times("h") # {}
                         THEN <<(CHOOSE n \in times("h") : TRUE) * 60>>
                    ELSE IF times("d") # {}
                         THEN <<(CHOOSE n \in times("d") : TRUE) * 24 * 60>>
                    ELSE IF times("w") # {}
                         THEN <<(CHOOSE n \in times("w") : TRUE) * 7 * 24 * 60>>
                    ELSE IF times("mo") # {}
                         THEN <<(CHOOSE n \in times("mo") : TRUE) * 30 * 24 * 60>>
                    ELSE IF times("y") # {}
                         THEN <<(CHOOSE n \in times("y") : TRUE) * 365 * 24 * 60>>
                    ELSE <<>>
                stripped == strip_prefix(word, "#")
                cat == stripped[1]
                starts_with(unit, s) == strip_prefix(unit, s) # <<>>
                interval == IF rest = <<>> THEN <<>> ELSE parse_num(rest[1])
                freq == IF Len(rest) < 2 THEN ""
                        ELSE IF starts_with(rest[2], "day") THEN "DAILY"
                        ELSE IF starts_with(rest[2], "week") THEN "WEEKLY"
                        ELSE IF starts_with(rest[2], "month") THEN "MONTHLY"
                        ELSE IF starts_with(rest[2], "year") THEN "YEARLY"
                        ELSE ""
                val == strip_prefix(word, "@")
                date == IF val = <<>> THEN {}
                        ELSE { d \in Days : val[1] = fmt_dash(d) }
                offset == IF rest = <<>> THEN 0
                          ELSE IF starts_with(rest[1], "week") THEN 7
                          ELSE IF starts_with(rest[1], "month") THEN 30
                          ELSE IF starts_with(rest[1], "year") THEN 365
                          ELSE 0
                eod(d) == <<DateTime(d, 86399)>>
            IN  IF p # <<>> /\ p[1] \in 1..9
                THEN token_loop([self EXCEPT !.priority = p[1]], summary_words,
                                rest)
                ELSE IF minutes # <<>>
                THEN token_loop([self EXCEPT !.estimated_duration = minutes],
                                summary_words, rest)
                ELSE IF stripped # <<>> /\ cat # ""
                THEN token_loop(
                         [self EXCEPT !.categories =
                              push_all(push_unique(self.categories, cat),
                                       IF cat \in DOMAIN al THEN al[cat] ELSE <<>>)],
                         summary_words, rest)
                ELSE IF word = "@daily"
                THEN token_loop([self EXCEPT !.rrule = <<"FREQ=DAILY">>],
                                summary_words, rest)
                ELSE IF word = "@weekly"
                THEN token_loop([self EXCEPT !.rrule = <<"FREQ=WEEKLY">>],
                                summary_words, rest)
                ELSE IF word = "@monthly"
                THEN token_loop([self EXCEPT !.rrule = <<"FREQ=MONTHLY">>],
                                summary_words, rest)
                ELSE IF word = "@yearly"
                THEN token_loop([self EXCEPT !.rrule = <<"FREQ=YEARLY">>],
                                summary_words, rest)
                ELSE IF word = "@every"
                THEN IF interval # <<>>
                     THEN \* tokens.next() has taken the number
                          IF freq # ""
                          THEN token_loop(
                                   [self EXCEPT !.rrule =
                                        <<"FREQ=" \o freq \o ";INTERVAL="
                                          \o ToString(interval[1])>>],
                                   summary_words, Tail(Tail(rest)))
                          ELSE token_loop(self, Append(summary_words, word),
                                          Tail(rest))
                     ELSE token_loop(self, Append(summary_words, word), rest)
                ELSE IF date # {}
                THEN token_loop([self EXCEPT !.due = eod(CHOOSE d \in date : TRUE)],
                                summary_words, rest)
                ELSE IF val = <<"today">>
                THEN token_loop([self EXCEPT !.due = eod(Today)], summary_words,
                                rest)
                ELSE IF val = <<"tomorrow">>
                THEN token_loop([self EXCEPT !.due = eod(Today + 1)], summary_words,
                                rest)
                ELSE IF val = <<"next">> /\ offset > 0
                THEN token_loop([self EXCEPT !.due = eod(Today + offset)],
                                summary_words, Tail(rest))
                ELSE token_loop(self, Append(summary_words, word), rest)
    IN  token_loop([task EXCEPT !.priority = 0, !.due = <<>>, !.rrule = <<>>,
                                !.categories = <<>>],
                   <<>>, line)

\* Task::to_smart_string(&self), as the words of the string
to_smart_string(self) ==
    LET mins == self.estimated_duration[1]
        dur_str == IF mins >= 525600 THEN "~" \o ToString(mins \div 525600) \o "y"
                   ELSE IF mins >= 43200 THEN "~" \o ToString(mins \div 43200) \o "mo"
                   ELSE IF mins >= 10080 THEN "~" \o ToString(mins \div 10080) \o "w"
                   ELSE IF mins >= 1440 THEN "~" \o ToString(mins \div 1440) \o "d"
                   ELSE IF mins >= 60 THEN "~" \o ToString(mins \div 60) \o "h"
                   ELSE "~" \o ToString(mins) \o "m"
        r == self.rrule[1]
    IN  self.summary
        \o (IF self.priority > 0 THEN <<"!" \o ToString(self.priority)>>
            ELSE <<>>)
        \o (IF self.due # <<>> THEN <<"@" \o fmt_dash(self.due[1].day)>>
            ELSE <<>>)
        \o (IF self.estimated_duration # <<>> THEN <<dur_str>> ELSE <<>>)
        \o (IF self.rrule = <<>> THEN <<>>
            ELSE IF r = "FREQ=DAILY" THEN <<"@daily">>
            ELSE IF r = "FREQ=WEEKLY" THEN <<"@weekly">>
            ELSE IF r = "FREQ=MONTHLY" THEN <<"@monthly">>
            ELSE IF r = "FREQ=YEARLY" THEN <<"@yearly">>
            ELSE <<>>)
        \o [i \in 1..Len(self.categories) |-> "#" \o self.categories[i]]

(***************************************************************************)
(* iCalendar text: a sequence of content lines, each a key, its parameters *)
(* and its value; a value is a sequence of pieces (words, or the parts of  *)
(* a date or of a duration).  The icalendar crate writes a component as    *)
(* BEGIN, its properties, END, and reads it back as it wrote it.           *)
(***************************************************************************)
Line(key, params, value) == [key |-> key, params |-> params, value |-> value]

HANDLED_KEYS ==
    {"UID", "SUMMARY", "DESCRIPTION", "STATUS", "PRIORITY", "DUE", "DTSTART",
     "RRULE", "DURATION", "X-ESTIMATED-DURATION", "CATEGORIES", "RELATED-TO",
     "DTSTAMP", "CREATED", "LAST-MODIFIED", "SEQUENCE", "PRODID", "VERSION",
     "CALSCALE"}

\* the keys outside HANDLED_KEYS that occur, in lexicographic order
OtherKeys == <<"ATTACH", "X-CUSTOM-FOO">>

\* the position of x in the sequence order
RankIn(order, x) == CHOOSE i \in 1..Len(order) : order[i] = x

\* faulty variant: the estimate is written as DURATION whatever else is
\* written
duration_key_always(due) == "DURATION"

\* to_ics: the key the estimated duration is written under
duration_key(due) ==
    IF due # <<>> THEN "X-ESTIMATED-DURATION" ELSE "DURATION"

\* Task::to_ics(&self); now is Utc::now()
to_ics(self, now) ==
    LET P(key, value) == <<Line(key, <<>>, value)>>
        fmt_dt(dt) == <<fmt_ymd(dt.day), "T", fmt_hms[dt.secs], "Z">>
        format_iso_duration(mins) ==
            IF mins % (24 * 60) = 0
            THEN <<"P", ToString(mins \div (24 * 60)), "D">>
            ELSE IF mins % 60 = 0
            THEN <<"P", "T", ToString(mins \div 60), "H">>
            ELSE <<"P", "T", ToString(mins), "M">>
        status == CASE self.status = "NeedsAction" -> "NEEDS-ACTION"
                    [] self.status = "InProcess" -> "IN-PROCESS"
                    [] self.status = "Completed" -> "COMPLETED"
                    [] self.status = "Cancelled" -> "CANCELLED"
        todo ==
            P("UID", <<self.uid>>)
            \o P("SUMMARY", self.summary)
            \o (IF self.description # <<>>
                THEN P("DESCRIPTION", self.description) ELSE <<>>)
            \o P("DTSTAMP", fmt_dt(now))
            \o P("STATUS", <<status>>)
            \o (IF self.dtstart # <<>>
                THEN P("DTSTART", fmt_dt(self.dtstart[1])) ELSE <<>>)
            \o (IF self.due # <<>> THEN P("DUE", fmt_dt(self.due[1])) ELSE <<>>)
            \o (IF self.estimated_duration # <<>>
                THEN P(duration_key(self.due),
                       format_iso_duration(self.estimated_duration[1]))
                ELSE <<>>)
            \o (IF self.priority > 0
                THEN P("PRIORITY", <<ToString(self.priority)>>) ELSE <<>>)
            \o (IF self.rrule # <<>> THEN P("RRULE", self.rrule) ELSE <<>>)
            \* hierarchy and dependencies
            \o (IF self.parent_uid # <<>>
                THEN P("RELATED-TO", self.parent_uid) ELSE <<>>)
            \o [i \in 1..Len(self.dependencies) |->
                   Line("RELATED-TO", <<<<"RELTYPE", "DEPENDS-ON">>>>,
                        <<self.dependencies[i]>>)]
            \* the unmapped properties are written back
            \o [i \in 1..Len(self.unmapped_properties) |->
                   Line(self.unmapped_properties[i].key,
                        self.unmapped_properties[i].params,
                        self.unmapped_properties[i].value)]
        \* CATEGORIES: one line, the names joined by commas, put before
        \* the last END:VTODO (the names that occur hold no comma, so that
        \* replace(',', "\\,") leaves them as they are)
        cat_line ==
            IF self.categories = <<>> THEN <<>>
            ELSE P("CATEGORIES",
                   [i \in 1..(2 * Len(self.categories) - 1) |->
                       IF i % 2 = 1 THEN self.categories[(i + 1) \div 2]
                       ELSE ","])
        RECURSIVE flat(_)
        flat(raws) == IF raws = <<>> THEN <<>>
                      ELSE Head(raws) \o flat(Tail(raws))
    IN  P("BEGIN", <<"VCALENDAR">>)
        \o P("VERSION", <<"2.0">>)
        \o P("PRODID", <<"ICALENDAR-RS">>)
        \o P("CALSCALE", <<"GREGORIAN">>)
        \o P("BEGIN", <<"VTODO">>)
        \o todo
        \o cat_line
        \o P("END", <<"VTODO">>)
        \* the raw components are put before END:VCALENDAR
        \o flat(self.raw_components)
        \o P("END", <<"VCALENDAR">>)

\* Task::from_ics(raw_ics, etag, href, calendar_href): 0 tasks for Err,
\* 1 task for Ok
item_from_ics(raw_ics, etag, href, calendar_href) ==
    LET RECURSIVE push_all(_, _)
        \* the values of a list, each kept where it is first met
        \* (dedup() of a sorted list; if !dependencies.contains(&value))
        push_all(kept_values, values) ==
            IF values = <<>> THEN kept_values
            ELSE push_all(push_unique(kept_values, Head(values)),
                          Tail(values))
        RECURSIVE dur_walk(_, _, _, _)
        \* the loop of the closure parse_dur over the pieces of val: "T", a
        \* number, or a unit letter
        dur_walk(val, minutes, num_buf, in_time) ==
            IF val = <<>> THEN minutes
            ELSE LET c == Head(val)
                     n == IF parse_num(num_buf) = <<>> THEN 0 ELSE parse_num(num_buf)[1]
                 IN  IF c = "T" THEN dur_walk(Tail(val), minutes, num_buf, TRUE)
                     ELSE IF parse_num(c) # <<>>
                     THEN dur_walk(Tail(val), minutes, num_buf \o c, in_time)
                     ELSE IF num_buf # ""
                     THEN dur_walk(Tail(val),
                                   CASE c = "D" -> minutes + n * 24 * 60
                                     [] c = "H" /\ in_time -> minutes + n * 60
                                     [] c = "M" /\ in_time -> minutes + n
                                     [] c = "W" -> minutes + n * 7 * 24 * 60
                                     [] OTHER -> minutes,
                                   "", in_time)
                     ELSE dur_walk(Tail(val), minutes, num_buf, in_time)
        n == Len(raw_ics)
        \* the components of the calendar, by the line they begin at
        begins == SelectSeq([i \in 1..n |-> i],
                            LAMBDA i : /\ raw_ics[i].key = "BEGIN"
                                       /\ raw_ics[i].value # <<"VCALENDAR">>)
        end_of(i) == CHOOSE j \in i..n :
                         /\ raw_ics[j].key = "END"
                         /\ \A k \in i..(j - 1) : raw_ics[k].key # "END"
        comp(i) == SubSeq(raw_ics, i, end_of(i))
        kind(i) == raw_ics[i].value[1]
        has(c, key) == \E k \in 1..Len(c) : c[k].key = key
        masters == SelectSeq(begins,
                             LAMBDA i : /\ kind(i) = "VTODO"
                                        /\ ~has(comp(i), "RECURRENCE-ID"))
        \* the other VTODOs, the VEVENTs and the VVENUEs are kept as
        \* text; any other component falls to the arm _ => {}
        kept == SelectSeq(begins,
                          LAMBDA i : /\ i # masters[1]
                                     /\ kind(i) \in {"VTODO", "VEVENT", "VVENUE"})
        raw_components == [k \in 1..Len(kept) |-> comp(kept[k])]
        todo == comp(masters[1])
        get(key) == LET at == { k \in 1..Len(todo) : todo[k].key = key }
                    IN  IF at = {} THEN <<>>
                        ELSE <<todo[CHOOSE k \in at : \A l \in at : l <= k].value>>
        text(v) == IF v = <<>> THEN "" ELSE v[1]
        status == IF get("STATUS") = <<>> THEN "NeedsAction"
                  ELSE CASE text(get("STATUS")[1]) = "COMPLETED" -> "Completed"
                         [] text(get("STATUS")[1]) = "IN-PROCESS" -> "InProcess"
                         [] text(get("STATUS")[1]) = "CANCELLED" -> "Cancelled"
                         [] OTHER -> "NeedsAction"
        priority == IF get("PRIORITY") = <<>> THEN 0
                    ELSE IF parse_u8(text(get("PRIORITY")[1])) = <<>> THEN 0
                    ELSE parse_u8(text(get("PRIORITY")[1]))[1]
        \* NaiveDate::parse_from_str(val, "%Y%m%d") joined with a time
        date_at(val, secs) ==
            IF \E d \in Days : val[1] = fmt_ymd(d)
            THEN <<DateTime(CHOOSE d \in Days : val[1] = fmt_ymd(d), secs)>>
            ELSE <<>>
        \* NaiveDateTime::parse_from_str(val, "%Y%m%dT%H%M%S" with or
        \* without the closing Z)
        date_time(val) ==
            IF /\ Len(val) \in {3, 4}
               /\ val[2] = "T"
               /\ \E s \in DOMAIN fmt_hms : val[3] = fmt_hms[s]
               /\ Len(val) = 4 => val[4] = "Z"
            THEN date_at(val, CHOOSE s \in DOMAIN fmt_hms : val[3] = fmt_hms[s])
            ELSE <<>>
        \* a value of length 8 is a date without a time
        parse_date_prop(val) ==
            IF Len(val) = 1 THEN date_at(val, 0) ELSE date_time(val)
        due == IF get("DUE") = <<>> THEN <<>>
               ELSE IF Len(get("DUE")[1]) = 1
               THEN date_at(get("DUE")[1], 86399)
               ELSE parse_date_prop(get("DUE")[1])
        dtstart == IF get("DTSTART") = <<>> THEN <<>>
                   ELSE parse_date_prop(get("DTSTART")[1])
        rrule == IF get("RRULE") = <<>> THEN <<>>
                 ELSE <<text(get("RRULE")[1])>>
        parse_dur(val) == LET minutes == dur_walk(val, 0, "", FALSE)
                          IN  IF minutes > 0 THEN <<minutes>> ELSE <<>>
        x_estimated == IF get("X-ESTIMATED-DURATION") = <<>> THEN <<>>
                       ELSE parse_dur(get("X-ESTIMATED-DURATION")[1])
        estimated_duration ==
            IF x_estimated # <<>> THEN x_estimated
            ELSE IF get("DURATION") = <<>> THEN <<>>
            ELSE parse_dur(get("DURATION")[1])
        \* CATEGORIES: split(','), trim, drop the empty parts; then
        \* sort() and dedup()
        parts == SelectSeq(IF get("CATEGORIES") = <<>> THEN <<>>
                           ELSE get("CATEGORIES")[1],
                           LAMBDA s : s # "," /\ s # "")
        categories ==
            push_all(<<>>, SortSeq(parts, LAMBDA a, b :
                                      RankIn(TagOrder, a) < RankIn(TagOrder, b)))
        \* the RELATED-TO lines of the whole text
        is_dep(l) == /\ l.key = "RELATED-TO"
                     /\ \E k \in 1..Len(l.params) :
                            l.params[k] = <<"RELTYPE", "DEPENDS-ON">>
        is_parent(l) == /\ l.key = "RELATED-TO"
                        /\ ~is_dep(l)
                        /\ \A k \in 1..Len(l.params) :
                               l.params[k][1] = "RELTYPE" =>
                                   l.params[k][2] = "PARENT"
        dep_lines == SelectSeq(raw_ics, is_dep)
        parent_lines == SelectSeq(raw_ics, is_parent)
        dependencies ==
            push_all(<<>>, [k \in 1..Len(dep_lines) |-> text(dep_lines[k].value)])
        parent_uid == IF parent_lines = <<>> THEN <<>>
                      ELSE <<text(parent_lines[Len(parent_lines)].value)>>
        \* the properties outside HANDLED_KEYS, sorted by key
        others == SelectSeq(todo, LAMBDA l :
                                l.key \notin HANDLED_KEYS \cup {"BEGIN", "END"})
        unmapped_properties ==
            SortSeq([k \in 1..Len(others) |->
                        [key |-> others[k].key, value |-> others[k].value,
                         params |-> others[k].params]],
                    LAMBDA a, b :
                        RankIn(OtherKeys, a.key) < RankIn(OtherKeys, b.key))
    IN  IF n = 0 \/ raw_ics[1] # Line("BEGIN", <<>>, <<"VCALENDAR">>)
        THEN <<>>
        ELSE IF masters = <<>> THEN <<>>
        ELSE <<[uid |-> IF get("UID") = <<>> THEN "" ELSE text(get("UID")[1]),
                summary |-> IF get("SUMMARY") = <<>> THEN <<"No", "Title">>
                            ELSE get("SUMMARY")[1],
                description |-> IF get("DESCRIPTION") = <<>> THEN <<>>
                                ELSE get("DESCRIPTION")[1],
                status |-> status,
                estimated_duration |-> estimated_duration,
                due |-> due, dtstart |-> dtstart, priority |-> priority,
                parent_uid |-> parent_uid, dependencies |-> dependencies,
                etag |-> etag, href |-> href,
                calendar_href |-> calendar_href, categories |-> categories,
                depth |-> 0, rrule |-> rrule,
                unmapped_properties |-> unmapped_properties,
                raw_components |-> raw_components]>>

\* faulty variant: the new due date is the next occurrence itself
next_due_at_start(old_due, seed_date, next_start) == next_start

\* respawn: let duration = old_due - seed_date;
\*          next_task.due = Some(next_start + duration)
next_due(old_due, seed_date, next_start) ==
    LET secs(dt) == dt.day * 86400 + dt.secs
        at == secs(next_start) + (secs(old_due) - secs(seed_date))
    IN  DateTime(at \div 86400, at % 86400)

\* Task::respawn(&self): 0 or 1 tasks; uuid is Uuid::new_v4()
respawn_item(self, uuid) ==
    LET rule_str == self.rrule[1]
        seed_date == IF self.dtstart # <<>> THEN self.dtstart[1]
                     ELSE self.due[1]
        \* RRuleSet::from_str("DTSTART:..\nRRULE:..") and all(2): the
        \* days between two occurrences of the rules that occur, counted
        \* from a day of January 2024; 0 for a rule that ends with its
        \* first occurrence; no entry for a rule that does not parse
        period == ("FREQ=DAILY" :> 1) @@ ("FREQ=WEEKLY" :> 7)
                  @@ ("FREQ=MONTHLY" :> 31) @@ ("FREQ=YEARLY" :> 366)
                  @@ ("FREQ=DAILY;INTERVAL=3" :> 3)
                  @@ ("FREQ=WEEKLY;COUNT=1" :> 0)
        dates == IF rule_str \notin DOMAIN period THEN <<>>
                 ELSE IF period[rule_str] = 0 THEN <<seed_date>>
                 ELSE <<seed_date,
                        DateTime(seed_date.day + period[rule_str],
                                 seed_date.secs)>>
        next_start == dates[2]
    IN  IF self.rrule = <<>> THEN <<>>
        ELSE IF self.dtstart = <<>> /\ self.due = <<>> THEN <<>>
        ELSE IF Len(dates) > 1
        THEN <<[self EXCEPT
                  !.uid = uuid, !.href = "", !.etag = "",
                  !.status = "NeedsAction", !.dependencies = <<>>,
                  !.dtstart = IF self.dtstart # <<>> THEN <<next_start>>
                              ELSE self.dtstart,
                  !.due = IF self.due # <<>>
                          THEN <<next_due(self.due[1], seed_date, next_start)>>
                          ELSE self.due]>>
        ELSE <<>>

(***************************************************************************)
(* The front end with one task in hand                                     *)
(***************************************************************************)
\* Task::new(input, aliases): the line typed becomes the task in hand
SmartInput ==
    /\ ipc = "typed"
    /\ item' = <<apply_smart_input(NewItem("u1"), input, aliases)>>
    /\ ipc' = "item"
    /\ UNCHANGED <<coreVars, frontVars, crashVars, localVars, run2Vars,
                   fetchVars, input, aliases, served, ics, decoded, smart,
                   reparsed, spawned, store, walk, rows>>

\* get_tasks decodes the resource the server gave
Fetched ==
    /\ ipc = "served"
    /\ item' = item_from_ics(served, "e1", "/cal1/u1.ics", "/cal1/")
    /\ ipc' = IF item' = <<>> THEN "done" ELSE "item"
    /\ UNCHANGED <<coreVars, frontVars, crashVars, localVars, run2Vars,
                   fetchVars, input, aliases, served, ics, decoded, smart,
                   reparsed, spawned, store, walk, rows>>

\* Message::IndentTask: the task becomes a child of the task above it
IndentTask ==
    /\ ipc = "item"
    /\ LET parent_uid == "p2"
       IN  /\ item[1].parent_uid # <<parent_uid>>
           /\ item' = <<[item[1] EXCEPT !.parent_uid = <<parent_uid>>]>>
    /\ ipc' = "edited"
    /\ UNCHANGED <<coreVars, frontVars, crashVars, localVars, run2Vars,
                   fetchVars, input, aliases, served, ics, decoded, smart,
                   reparsed, spawned, store, walk, rows>>

\* sync_journal writes the task for the PUT
ToIcs ==
    /\ ipc \in {"item", "edited"}
    /\ ics' = to_ics(item[1], DateTime(Today, 32400))
    /\ ipc' = "ics"
    /\ UNCHANGED <<coreVars, frontVars, crashVars, localVars, run2Vars,
                   fetchVars, input, aliases, served, item, decoded, smart,
                   reparsed, spawned, store, walk, rows>>

\* the next get_tasks reads the text back
FromIcs ==
    /\ ipc = "ics"
    /\ decoded' = item_from_ics(ics, "e2", "/cal1/u1.ics", "/cal1/")
    /\ ipc' = "decoded"
    /\ UNCHANGED <<coreVars, frontVars, crashVars, localVars, run2Vars,
                   fetchVars, input, aliases, served, item, ics, smart,
                   reparsed, spawned, store, walk, rows>>

\* the input box shows the task in hand
ToSmartString ==
    /\ ipc = "decoded"
    /\ smart' = to_smart_string(item[1])
    /\ ipc' = "smart"
    /\ UNCHANGED <<coreVars, frontVars, crashVars, localVars, run2Vars,
                   fetchVars, input, aliases, served, item, ics, decoded,
                   reparsed, spawned, store, walk, rows>>

\* the text of the input box is parsed again
Reparse ==
    /\ ipc = "smart"
    /\ reparsed' = <<apply_smart_input(NewItem("u1"), smart, aliases)>>
    /\ ipc' = "reparsed"
    /\ UNCHANGED <<coreVars, frontVars, crashVars, localVars, run2Vars,
                   fetchVars, input, aliases, served, item, ics, decoded,
                   smart, spawned, store, walk, rows>>

\* toggle_task: the task is completed and respawned
Respawn ==
    /\ ipc = "reparsed"
    /\ spawned' = respawn_item(item[1], "u9")
    /\ ipc' = "done"
    /\ UNCHANGED <<coreVars, frontVars, crashVars, localVars, run2Vars,
                   fetchVars, input, aliases, served, item, ics, decoded,
                   smart, reparsed, store, walk, rows>>

\* the lines the user types over a task in hand
EditLines == {<<"call", "back">>, <<"~3h", "#work", "@daily", "!2">>}

\* Action::EditTask(index, line): the line typed is parsed into the task in
\* hand, task.apply_smart_input(line, aliases)
EditTask ==
    /\ ipc = "item"
    /\ \E line \in EditLines :
          /\ input' = line
          /\ item' = <<apply_smart_input(item[1], line, aliases)>>
    /\ ipc' = "retyped"
    /\ UNCHANGED <<coreVars, frontVars, crashVars, localVars, run2Vars,
                   fetchVars, aliases, served, ics, decoded, smart, reparsed,
                   spawned, store, walk, rows>>

\* faulty variant: the call completes the task whatever its status
toggle_status_always_completes(task) == [task EXCEPT !.status = "Completed"]

\* toggle_task: if task.status == Completed { NeedsAction } else { Completed }
toggle_status(task) ==
    [task EXCEPT !.status = IF task.status = "Completed" THEN "NeedsAction"
                            ELSE "Completed"]

\* the check box of the task in hand: toggle_task flips the status, respawns
\* the task when it is now Completed, and files or queues the outcome.  The
\* task is in the list of a calendar: the one it was fetched from, or the
\* one the front end gave it when it was typed.
ToggleItem ==
    /\ ipc \in {"item", "toggled"}
    /\ \E cal \in {Cal1, LOCAL_CALENDAR_HREF} :
          /\ ipc = "toggled" => cal = item[1].calendar_href
          /\ (ipc = "item" /\ item[1].calendar_href # "") => cal = Cal1
          /\ LET listed == IF ipc = "toggled" THEN item[1]
                           ELSE [item[1] EXCEPT
                                   !.calendar_href = cal,
                                   !.href = IF cal = LOCAL_CALENDAR_HREF
                                            THEN EmptyStr
                                            ELSE full_href(cal, item[1].uid)]
                 task == toggle_status(listed)
                 next_task == IF task.status = "Completed"
                              THEN respawn_item(task, "u9")
                              ELSE <<>>
                 r == toggle_task(Files, task, next_task)
             IN  /\ disk' = r.disk
                 /\ local' = r.local
                 /\ item' = <<r.task>>
                 /\ spawned' = next_task
    /\ ipc' = IF ipc = "item" THEN "toggled" ELSE "untoggled"
    /\ UNCHANGED <<lock, modVars, syncVars, srvVars, nextUuid, ghostVars,
                   held, calls, crashVars, localVars, run2Vars, fetchVars,
                   input, aliases, served, ics, decoded, smart, reparsed,
                   store, walk, rows>>

(***************************************************************************)
(* The task list of the front end (spec 4.10): model/store.rs and          *)
(* model/item.rs are not among the sources; the resolver is modelled from  *)
(* the specification, the handlers from bin/gui.rs and gui/view.           *)
(***************************************************************************)
MaxTasks == 3

\* the uids of the tasks of the list
TaskUids == [i \in 1..MaxTasks |-> <<"a", "b", "c", "d", "e", "f">>[i]]

\* faulty variant: a dependency that resolves to no task blocks as well
is_blocked_unresolved(tasks, task) ==
    \E k \in 1..Len(task.dependencies) :
        ~ \E j \in 1..Len(tasks) :
              /\ tasks[j].uid = task.dependencies[k]
              /\ tasks[j].status \in {"Completed", "Cancelled"}

\* store.is_blocked(task): some dependency resolves to a task whose status
\* is neither Completed nor Cancelled
is_blocked(tasks, task) ==
    \E k \in 1..Len(task.dependencies) :
        \E j \in 1..Len(tasks) :
            /\ tasks[j].uid = task.dependencies[k]
            /\ tasks[j].status \notin {"Completed", "Cancelled"}

\* faulty variant: the parent is followed whether or not it was met before
resolve_parent_again(tasks, uid, seen) ==
    LET t == tasks[CHOOSE j \in 1..Len(tasks) : tasks[j].uid = uid]
    IN  IF /\ t.parent_uid # <<>>
           /\ \E j \in 1..Len(tasks) : tasks[j].uid = t.parent_uid[1]
        THEN t.parent_uid
        ELSE <<>>

\* the parent to count for the depth: the parent exists, is in the index,
\* and is not an ancestor met before (such an ancestor is treated as root)
resolve_parent(tasks, uid, seen) ==
    LET t == tasks[CHOOSE j \in 1..Len(tasks) : tasks[j].uid = uid]
    IN  IF /\ t.parent_uid # <<>>
           /\ \E j \in 1..Len(tasks) : tasks[j].uid = t.parent_uid[1]
           /\ t.parent_uid[1] \notin seen
        THEN t.parent_uid
        ELSE <<>>

\* Message::Loaded: Task::organize_hierarchy(tasks), one step of the depth
\* computation: depth = 1 + depth(parent) while a parent resolves, else 0.
\* The rows are drawn when the list is organized. The order of display is
\* left as the list has it.
organize_hierarchy ==
    LET start(i) == <<[i |-> i, at |-> store[i].uid, seen |-> {store[i].uid},
                       depth |-> 0]>>
    IN
    /\ ipc \in {"loaded", "organize"}
    /\ IF ipc = "loaded"
       THEN /\ walk' = start(1)
            /\ ipc' = "organize"
            /\ UNCHANGED <<store, rows>>
       ELSE LET w == walk[1]
                p == resolve_parent(store, w.at, w.seen)
            IN  IF p # <<>>
                THEN /\ walk' = <<[w EXCEPT !.at = p[1],
                                            !.seen = @ \cup {p[1]},
                                            !.depth = @ + 1]>>
                     /\ UNCHANGED <<ipc, store, rows>>
                ELSE /\ store' = [store EXCEPT ![w.i].depth = w.depth]
                     /\ IF w.i < Len(store)
                        THEN /\ walk' = start(w.i + 1)
                             /\ UNCHANGED <<ipc, rows>>
                        ELSE /\ walk' = <<>>
                             /\ ipc' = "list"
                             /\ rows' = [i \in 1..Len(store) |->
                                            is_blocked(store', store'[i])]
    /\ UNCHANGED <<coreVars, frontVars, crashVars, localVars, run2Vars,
                   fetchVars, input, aliases, served, item, ics, decoded,
                   smart, reparsed, spawned>>

\* Message::SetTaskStatus(index, status), as the buttons of an open task
\* send it: start or pause, and cancel
SetTaskStatus ==
    /\ ipc = "list"
    /\ \E index \in 1..Len(store) :
       \E status \in {"NeedsAction", "InProcess", "Cancelled"} :
          /\ store[index].status \notin {"Completed", "Cancelled"}
          /\ \/ status = "Cancelled"
             \/ status = (IF store[index].status = "InProcess"
                          THEN "NeedsAction" ELSE "InProcess")
          /\ store' = [store EXCEPT ![index].status = status]
          /\ rows' = [i \in 1..Len(store) |-> is_blocked(store', store'[i])]
    /\ UNCHANGED <<coreVars, frontVars, crashVars, localVars, run2Vars,
                   fetchVars, ipc, input, aliases, served, item, ics,
                   decoded, smart, reparsed, spawned, walk>>

\* Message::ToggleTask(index, is_checked): the check box of the row
ToggleTask ==
    /\ ipc = "list"
    /\ \E index \in 1..Len(store) :
          LET is_checked == store[index].status # "Completed"
          IN  /\ store' = [store EXCEPT ![index].status =
                              IF is_checked THEN "Completed" ELSE "NeedsAction"]
              /\ rows' = [i \in 1..Len(store) |-> is_blocked(store', store'[i])]
    /\ UNCHANGED <<coreVars, frontVars, crashVars, localVars, run2Vars,
                   fetchVars, ipc, input, aliases, served, item, ics,
                   decoded, smart, reparsed, spawned, walk>>

\* a line of at most MaxTokens words with an alias table, a resource of
\* the server, or a list of MaxTasks tasks as the server gave them
InitItem ==
    LET \* the words of a line typed
        Words == {"!2", "!12", "#code", "#work", "@daily", "@every", "3", "days",
                  "~0m", "@2024-01-01"}
        \* the alias tables of the configuration
        AliasTables == {<<>>, [code |-> <<"work", "focus">>]}
        \* the parent of task i: none, the task before it or after it in
        \* the list (going round), or a task that is not in the list
        Parents(i) == {<<>>, <<TaskUids[((i + MaxTasks - 2) % MaxTasks) + 1]>>,
                       <<TaskUids[(i % MaxTasks) + 1]>>, <<"x">>}
        \* the dependencies of the first task
        Blockers == {<<>>, <<"x">>, <<"b">>, <<"b", "c", "x">>}
        \* a list as get_tasks gives it: depth 0 everywhere
        Loaded(parents, deps) ==
            [i \in 1..MaxTasks |->
                [NewItem(TaskUids[i]) EXCEPT
                    !.parent_uid = parents[i],
                    !.dependencies = IF i = 1 THEN deps ELSE <<>>]]
        \* a resource as another client wrote it: the master VTODO (with its
        \* relations, with properties the program does not interpret, with a
        \* recurrence, with a DURATION, with a PRIORITY) and a sibling
        \* component
        Served(rel, other, sib, rec, dur, pri) ==
            LET P(key, value) == <<Line(key, <<>>, value)>>
            IN  P("BEGIN", <<"VCALENDAR">>)
                \o P("VERSION", <<"2.0">>)
                \o P("BEGIN", <<"VTODO">>)
                \o P("UID", <<"u1">>)
                \o P("SUMMARY", <<"water", "plants">>)
                \o (IF rec = "none" THEN <<>>
                    ELSE P("DTSTART", <<fmt_ymd(1), "T", "090000", "Z">>)
                         \o P("DUE", <<fmt_ymd(3)>>)
                         \o P("RRULE", <<IF rec = "weekly" THEN "FREQ=WEEKLY"
                                         ELSE "FREQ=WEEKLY;COUNT=1">>))
                \o (IF dur THEN P("DURATION", <<"P", "T", "2", "H">>) ELSE <<>>)
                \o (IF pri = "" THEN <<>> ELSE P("PRIORITY", <<pri>>))
                \o (IF rel
                    THEN P("RELATED-TO", <<"p1">>)
                         \o <<Line("RELATED-TO", <<<<"RELTYPE", "DEPENDS-ON">>>>, <<"d1">>),
                              Line("RELATED-TO", <<<<"RELTYPE", "DEPENDS-ON">>>>, <<"d2">>),
                              Line("RELATED-TO", <<<<"RELTYPE", "DEPENDS-ON">>>>, <<"d3">>)>>
                    ELSE <<>>)
                \o (IF other
                    THEN <<Line("X-CUSTOM-FOO", <<<<"PARAM", "1">>>>, <<"bar">>)>>
                         \o P("ATTACH", <<"file">>)
                    ELSE <<>>)
                \o P("END", <<"VTODO">>)
                \o (CASE sib = "VEVENT" ->
                           P("BEGIN", <<"VEVENT">>) \o P("UID", <<"e1">>)
                           \o P("SUMMARY", <<"meeting">>) \o P("END", <<"VEVENT">>)
                      [] sib = "exception" ->
                           P("BEGIN", <<"VTODO">>) \o P("UID", <<"u1">>)
                           \o P("RECURRENCE-ID", <<fmt_ymd(8), "T", "090000", "Z">>)
                           \o P("SUMMARY", <<"water", "less">>)
                           \o P("RELATED-TO", <<"p1">>) \o P("END", <<"VTODO">>)
                      [] sib = "VTIMEZONE" ->
                           P("BEGIN", <<"VTIMEZONE">>) \o P("TZID", <<"Europe/Brussels">>)
                           \o P("END", <<"VTIMEZONE">>)
                      [] OTHER -> <<>>)
                \o P("END", <<"VCALENDAR">>)
    IN
    /\ disk = <<>>
    /\ server \in {[h \in AllHrefs |-> Absent]}
    /\ pc = "idle"
    /\ InitCommon
    /\ IdleBut("item")
    /\ \/ /\ ipc = "typed"
          /\ input \in UNION { [1..k -> Words] : k \in 0..MaxTokens }
          /\ aliases \in AliasTables
          /\ served = <<>>
          /\ store = <<>>
       \/ /\ ipc = "served"
          /\ input = <<>>
          /\ aliases = <<>>
          /\ served \in { Served(rel, other, sib, rec, dur, pri) :
                             rel \in BOOLEAN, other \in BOOLEAN,
                             sib \in {"none", "VEVENT", "exception", "VTIMEZONE"},
                             rec \in {"none", "weekly", "once"},
                             dur \in BOOLEAN,
                             pri \in {"", "2", "12", "300"} }
          /\ store = <<>>
       \/ /\ ipc = "loaded"
          /\ input = <<>>
          /\ aliases = <<>>
          /\ served = <<>>
          /\ \E parents \in [1..MaxTasks -> UNION {Parents(i) : i \in 1..MaxTasks}],
                deps \in Blockers :
                /\ \A i \in 1..MaxTasks : parents[i] \in Parents(i)
                /\ deps = <<>> \/ \A i \in 1..MaxTasks : parents[i] = <<>>
                /\ store = Loaded(parents, deps)
    /\ item = <<>>
    /\ ics = <<>>
    /\ decoded = <<>>
    /\ smart = <<>>
    /\ reparsed = <<>>
    /\ spawned = <<>>
    /\ walk = <<>>
    /\ rows = <<>>

NextItem ==
    \/ SmartInput
    \/ Fetched
    \/ IndentTask
    \/ ToIcs
    \/ FromIcs
    \/ ToSmartString
    \/ Reparse
    \/ Respawn
    \/ EditTask
    \/ ToggleItem
    \/ organize_hierarchy
    \/ SetTaskStatus
    \/ ToggleTask

SpecItem == InitItem /\ [][NextItem]_vars

(***************************************************************************)
(* Properties of the task model                                            *)
(***************************************************************************)
\* the task in hand is the task the parser made of the line typed
FromParser ==
    /\ served = <<>>
    /\ item = <<apply_smart_input(NewItem("u1"), input, aliases)>>

\* the text of the task in hand has been read back
ReadBack == ipc \in {"decoded", "smart", "reparsed", "done"}

\* C21: for every task t the smart parser produces, from_ics(to_ics(t),
\* etag, href, cal) succeeds and equals t in uid, summary, description,
\* status, priority, due, dtstart, estimated_duration (0 included), rrule,
\* parent_uid, dependencies and the set of categories, with etag, href and
\* calendar_href set to the arguments and depth 0.
C21_CodecRoundTrip ==
    (FromParser /\ ReadBack) =>
        /\ decoded # <<>>
        /\ LET t == item[1]
               d == decoded[1]
           IN  /\ d.uid = t.uid
               /\ d.summary = t.summary
               /\ d.description = t.description
               /\ d.status = t.status
               /\ d.priority = t.priority
               /\ d.due = t.due
               /\ d.dtstart = t.dtstart
               /\ d.estimated_duration = t.estimated_duration
               /\ d.rrule = t.rrule
               /\ d.parent_uid = t.parent_uid
               /\ d.dependencies = t.dependencies
               /\ SeqSet(d.categories) = SeqSet(t.categories)
               /\ d.etag = "e2"
               /\ d.href = "/cal1/u1.ics"
               /\ d.calendar_href = "/cal1/"
               /\ d.depth = 0

\* the lines at which the components of a text begin, the lines of the
\* component that begins at line i, and the first component
BeginsOf(text) ==
    { i \in 1..Len(text) : /\ text[i].key = "BEGIN"
                           /\ text[i].value # <<"VCALENDAR">> }
ComponentAt(text, i) ==
    SubSeq(text, i, CHOOSE j \in i..Len(text) :
                        /\ text[j].key = "END"
                        /\ \A k \in i..(j - 1) : text[k].key # "END")
FirstOf(text) == CHOOSE i \in BeginsOf(text) : \A j \in BeginsOf(text) : i <= j

\* C22: every property of the master VTODO whose key is not a handled key
\* is in unmapped_properties with its parameters, every other component of
\* the VCALENDAR is in raw_components, and to_ics followed by from_ics
\* returns the same unmapped_properties and the same raw_components.
C22_UnknownKept ==
    (served # <<>> /\ item # <<>>) =>
        /\ SeqSet(item[1].unmapped_properties) =
              { [key |-> l.key, value |-> l.value, params |-> l.params] :
                  l \in { m \in SeqSet(ComponentAt(served, FirstOf(served))) :
                            m.key \notin HANDLED_KEYS \cup {"BEGIN", "END"} } }
        /\ \A i \in BeginsOf(served) \ {FirstOf(served)} :
              ComponentAt(served, i) \in SeqSet(item[1].raw_components)
        /\ ReadBack =>
              /\ decoded # <<>>
              /\ decoded[1].unmapped_properties = item[1].unmapped_properties
              /\ decoded[1].raw_components = item[1].raw_components

\* the RELATED-TO lines of a component: those that name a dependency and
\* those that name the parent
DependsOnLines(c) ==
    SelectSeq(c, LAMBDA l : /\ l.key = "RELATED-TO"
                            /\ l.params = <<<<"RELTYPE", "DEPENDS-ON">>>>)
ParentLines(c) ==
    SelectSeq(c, LAMBDA l : l.key = "RELATED-TO" /\ l.params = <<>>)

\* C23: a task with a parent_uid and n distinct dependencies is written
\* with one RELATED-TO line for the parent and one
\* RELATED-TO;RELTYPE=DEPENDS-ON line per dependency, in order, and
\* from_ics of the text returns the same parent_uid and the same n
\* dependencies in the same order.
C23_RelationsRoundTrip ==
    (/\ ipc \in {"ics", "decoded", "smart", "reparsed", "done"}
     /\ item[1].parent_uid # <<>>
     /\ Cardinality(SeqSet(item[1].dependencies)) = Len(item[1].dependencies)) =>
        LET master == ComponentAt(ics, FirstOf(ics))
        IN  /\ Len(ParentLines(master)) = 1
            /\ ParentLines(master)[1].value = item[1].parent_uid
            /\ Len(DependsOnLines(master)) = Len(item[1].dependencies)
            /\ \A k \in 1..Len(item[1].dependencies) :
                  DependsOnLines(master)[k].value = <<item[1].dependencies[k]>>
            /\ ReadBack =>
                  /\ decoded # <<>>
                  /\ decoded[1].parent_uid = item[1].parent_uid
                  /\ decoded[1].dependencies = item[1].dependencies

\* the number of lines of a component with a given key
CountKey(c, key) == Len(SelectSeq(c, LAMBDA l : l.key = key))

\* the task in hand has been written as text
Written == ipc \in {"ics", "decoded", "smart", "reparsed", "done"}

\* C24: the master VTODO written by to_ics never holds both DURATION and
\* DUE; an estimated duration is written once, as X-ESTIMATED-DURATION
\* when the task has a due date and as DURATION when it has none.
C24_DurationOrDue ==
    Written =>
        LET master == ComponentAt(ics, FirstOf(ics))
        IN  /\ ~(CountKey(master, "DURATION") > 0 /\ CountKey(master, "DUE") > 0)
            /\ item[1].estimated_duration # <<>> =>
                  IF item[1].due # <<>>
                  THEN /\ CountKey(master, "X-ESTIMATED-DURATION") = 1
                       /\ CountKey(master, "DURATION") = 0
                       /\ CountKey(master, "DUE") = 1
                  ELSE /\ CountKey(master, "DURATION") = 1
                       /\ CountKey(master, "X-ESTIMATED-DURATION") = 0

\* the resource served held DUE and DURATION together; the task read from
\* it is written with DUE and X-ESTIMATED-DURATION
C24_Witness ==
    /\ Written
    /\ served # <<>>
    /\ CountKey(served, "DURATION") = 1
    /\ CountKey(served, "DUE") = 1
    /\ item[1].estimated_duration = <<120>>
    /\ item[1].due # <<>>
    /\ CountKey(ics, "X-ESTIMATED-DURATION") = 1

\* the word at position i of the line typed is a directive that takes
\* effect: a priority, a duration, a tag, a recurrence or a date by
\* itself, or one of the three words of "@every <number> <unit>"
Every3(i) ==
    /\ i >= 1
    /\ i + 2 <= Len(input)
    /\ input[i] = "@every"
    /\ input[i + 1] = "3"
    /\ input[i + 2] = "days"
TakesEffect(i) ==
    \/ input[i] \in {"!2", "#code", "#work", "@daily", "~0m", "@2024-01-01"}
    \/ Every3(i) \/ Every3(i - 1) \/ Every3(i - 2)

\* C25: apply_smart_input drops no word of the line: a word either is a
\* directive that takes effect or is in the summary, and the summary is
\* the other words in the order of the line.
C25_NoTokenDropped ==
    (served = <<>> /\ item # <<>>) =>
        LET kept == SelectSeq([i \in 1..Len(input) |-> i],
                              LAMBDA i : ~TakesEffect(i))
        IN  item[1].summary = [k \in 1..Len(kept) |-> input[kept[k]]]

\* C26: parsing the smart string of a parsed line gives the same summary,
\* priority, due date, rrule and categories as parsing the line, for
\* every rrule the parser produces (@daily .. @yearly, @every N unit).
C26_ParserIdempotent ==
    (FromParser /\ ipc \in {"reparsed", "done"}) =>
        /\ reparsed[1].summary = item[1].summary
        /\ reparsed[1].priority = item[1].priority
        /\ reparsed[1].due = item[1].due
        /\ reparsed[1].rrule = item[1].rrule
        /\ reparsed[1].categories = item[1].categories

RECURSIVE TagStream(_)
\* the tags of a line in the order they are met: each #tag, then the
\* expansions the alias table lists for it
TagStream(tokens) ==
    IF tokens = <<>> THEN <<>>
    ELSE LET tag == IF Head(tokens) = "#code" THEN <<"code">>
                    ELSE IF Head(tokens) = "#work" THEN <<"work">>
                    ELSE <<>>
         IN  tag
             \o (IF tag # <<>> /\ tag[1] \in DOMAIN aliases
                 THEN aliases[tag[1]] ELSE <<>>)
             \o TagStream(Tail(tokens))

\* the first position of x in a sequence
FirstAt(s, x) == CHOOSE i \in 1..Len(s) : s[i] = x /\ \A j \in 1..(i - 1) : s[j] # x

\* C27: after parsing, categories holds every #tag of the line and every
\* expansion the alias table lists for it, each exactly once, in the
\* order of first occurrence.
C27_TagsAndAliasesOnce ==
    (FromParser /\ ipc # "typed") =>
        LET cats == item[1].categories
            stream == TagStream(input)
        IN  /\ SeqSet(cats) = SeqSet(stream)
            /\ Len(cats) = Cardinality(SeqSet(cats))
            /\ \A i, j \in 1..Len(cats) :
                  i < j => FirstAt(stream, cats[i]) < FirstAt(stream, cats[j])

\* #work, then #code with the alias code -> work, focus: work is there
\* once, before code and focus
C27_Witness ==
    /\ FromParser
    /\ ipc = "item"
    /\ input = <<"days", "#work", "#code">>
    /\ aliases = [code |-> <<"work", "focus">>]
    /\ item[1].categories = <<"work", "code", "focus">>

\* the days from an occurrence to the next, for the rules that have a
\* second occurrence
DaysToNext ==
    ("FREQ=DAILY" :> 1) @@ ("FREQ=WEEKLY" :> 7) @@ ("FREQ=DAILY;INTERVAL=3" :> 3)

\* C28: respawn of a task with an rrule and a seed date (dtstart, else
\* due) whose rule has a second occurrence returns a task with another
\* uid, empty href and etag, status NeedsAction and no dependencies, whose
\* dtstart (when set) and due are moved by the same time, from the seed to
\* the next occurrence; it returns None when there is no rrule, no seed
\* date or no second occurrence.
C28_RespawnShiftsDates ==
    ipc = "done" =>
        LET t == item[1]
            recurs == /\ t.rrule # <<>>
                      /\ t.dtstart # <<>> \/ t.due # <<>>
                      /\ t.rrule[1] \in DOMAIN DaysToNext
            later(d) == IF d = <<>> THEN <<>>
                        ELSE <<DateTime(d[1].day + DaysToNext[t.rrule[1]],
                                        d[1].secs)>>
        IN  IF recurs
            THEN /\ spawned # <<>>
                 /\ spawned[1].uid # t.uid
                 /\ spawned[1].href = ""
                 /\ spawned[1].etag = ""
                 /\ spawned[1].status = "NeedsAction"
                 /\ spawned[1].dependencies = <<>>
                 /\ spawned[1].dtstart = later(t.dtstart)
                 /\ spawned[1].due = later(t.due)
                 /\ spawned[1].summary = t.summary
            ELSE spawned = <<>>

\* a weekly task that starts on the 1st at 09:00 and is due at the end of
\* the 3rd, with three dependencies, respawns to the 8th at 09:00 and the
\* end of the 10th
C28_Witness ==
    /\ ipc = "done"
    /\ item[1].rrule = <<"FREQ=WEEKLY">>
    /\ item[1].dtstart = <<DateTime(1, 32400)>>
    /\ item[1].due = <<DateTime(3, 86399)>>
    /\ Len(item[1].dependencies) = 3
    /\ spawned # <<>>
    /\ spawned[1].dtstart = <<DateTime(8, 32400)>>
    /\ spawned[1].due = <<DateTime(10, 86399)>>
    /\ spawned[1].dependencies = <<>>


\* the tasks of the list a uid resolves to
ResolvesTo(uid) == { j \in 1..Len(store) : store[j].uid = uid }

\* C29: in the list shown, a task is drawn blocked exactly when one of its
\* dependencies resolves to a task of the store whose status is NeedsAction
\* or InProcess: once every dependency that resolves is Completed or
\* Cancelled the task is not blocked, and a dependency that resolves to no
\* task does not block
C29_BlockedByOpenDependency ==
    ipc = "list" =>
        \A i \in 1..Len(store) :
            LET deps == store[i].dependencies
                Open == { k \in 1..Len(deps) :
                            \E j \in ResolvesTo(deps[k]) :
                                store[j].status \in {"NeedsAction", "InProcess"} }
            IN  /\ rows[i] <=> Open # {}
                /\ (\A k \in 1..Len(deps) : ResolvesTo(deps[k]) = {})
                       => ~rows[i]
                /\ (\A k \in 1..Len(deps) : \A j \in ResolvesTo(deps[k]) :
                        store[j].status \in {"Completed", "Cancelled"})
                       => ~rows[i]

\* the first task depends on b, on c and on a task that is not in the
\* list; b was completed and c cancelled, and its row is not blocked
C29_Witness ==
    /\ ipc = "list"
    /\ store[1].dependencies = <<"b", "c", "x">>
    /\ store[2].status = "Completed"
    /\ store[3].status = "Cancelled"
    /\ ~rows[1]

\* C30: the depth computation ends on every parent graph: a walk meets
\* fewer ancestors than the list has tasks and can always take its next
\* step; in the organized list every depth is finite, a task with no parent
\* or with a parent that is not in the list has depth 0, and the chain
\* a <- b <- c has the depths 0, 1, 2
C30_DepthTerminates ==
    /\ \A k \in 1..Len(walk) :
          /\ walk[k].i \in 1..Len(store)
          /\ walk[k].depth < Len(store)
          /\ Cardinality(walk[k].seen) = walk[k].depth + 1
    /\ ipc \in {"loaded", "organize"} => ENABLED organize_hierarchy
    /\ ipc = "list" =>
          /\ \A i \in 1..Len(store) :
                /\ store[i].depth \in 0..(Len(store) - 1)
                /\ (\/ store[i].parent_uid = <<>>
                    \/ ResolvesTo(store[i].parent_uid[1]) = {})
                       => store[i].depth = 0
          /\ (/\ store[1].parent_uid = <<>>
              /\ store[2].parent_uid = <<"a">>
              /\ store[3].parent_uid = <<"b">>)
                 => /\ store[1].depth = 0
                    /\ store[2].depth = 1
                    /\ store[3].depth = 2

\* the chain with the parent of its first task set to the last task: a
\* cycle through the whole list, organized, every depth finite
C30_Witness ==
    /\ ipc = "list"
    /\ store[1].parent_uid = <<TaskUids[MaxTasks]>>
    /\ \A i \in 2..Len(store) : store[i].parent_uid = <<TaskUids[i - 1]>>
    /\ \A i \in 1..Len(store) : store[i].depth = Len(store) - 1


\* the calendar fetch of connect_with_fallback failed
FetchFailed == conn # <<>> /\ ~conn[1].answer.ok

\* C31: when the calendar fetch fails with an InvalidCertificate transport
\* error connect_with_fallback returns an error, never Ok with the Offline
\* Mode warning; after any other failure of the fetch it returns Ok with
\* the calendar list of calendars.json, the Offline Mode warning and no
\* task
C31_CertificateErrorNotDemoted ==
    FetchFailed =>
        LET c == conn[1]
            cached == IF calfile.form = "whole" THEN calfile.content ELSE <<>>
        IN  IF \E i \in 1..Len(c.answer.e) : c.answer.e[i] = "InvalidCertificate"
            THEN ~c.ok /\ c.warning = <<>> /\ c.err # <<>>
            ELSE /\ c.ok
                 /\ c.warning = <<"Offline Mode">>
                 /\ c.calendars = cached
                 /\ c.tasks = <<>>

\* the fetch timed out with two calendars in calendars.json and a task on
\* the server: Offline Mode with the two calendars, the configured one
\* active, and no task
C31_Witness ==
    /\ FetchFailed
    /\ conn[1].answer.e = <<"Request(", "TimedOut", ")">>
    /\ conn[1].ok
    /\ Len(conn[1].calendars) = 2
    /\ conn[1].active_href = <<Cal2>>
    /\ conn[1].warning = <<"Offline Mode">>
    /\ \E i \in 1..Len(listing) : listing[i].body = "vtodo"

\* C32: Cache::load and Cache::load_calendars give Ok(empty), not an
\* error, when the file read is absent, cannot be read or does not hold
\* JSON of the expected shape
C32_CorruptCacheReadsEmpty ==
    /\ (/\ \E k \in 1..Len(hist) : hist[k].cal = Cal1 /\ hist[k].ret = "Ok"
        /\ cachefile.form \in {"absent", "unreadable", "garbage"})
          => CacheLoad(cachefile) = Ok(<<>>)
    /\ (FetchFailed /\ calfile.form \in {"absent", "unreadable", "garbage"})
          => load_calendars(calfile) = Ok(<<>>)


\* a non-empty etag implies a non-empty href
EtagHasHref(t) == t.etag # NoEtag => t.href # EmptyStr

\* C33: every task held in a journal action (on disk or in the run), held
\* by the front end after create_task, move_task or toggle_task (the task
\* respawned), made as a conflict copy, or returned by get_tasks or
\* connect_with_fallback has a non-empty href when its etag is not empty
C33_EtagImpliesHref ==
    /\ \A i \in 1..Len(load_internal(disk)) : EtagHasHref(load_internal(disk)[i].task)
    /\ \A i \in 1..Len(journal) : EtagHasHref(journal[i].task)
    /\ \A i \in 1..Len(action) : EtagHasHref(action[i].task)
    /\ \A i \in 1..Len(conflict) : EtagHasHref(conflict[i].task)
    /\ \A t \in held : EtagHasHref(t)
    /\ \A i \in 1..Len(local) : EtagHasHref(local[i])
    /\ \A k \in 1..Len(hist) :
          \A i \in 1..Len(hist[k].tasks) : EtagHasHref(hist[k].tasks[i])
    /\ \A k \in 1..Len(conn) :
          \A i \in 1..Len(conn[k].tasks) : EtagHasHref(conn[k].tasks[i])

\* a task fetched with an etag was completed and respawned: the front end
\* holds the next occurrence, with no href and no etag, and the journal
\* holds its Create with the href create_task gave it
C33_Witness ==
    /\ \E t \in held : t.uid = new_v4(1) /\ t.href = EmptyStr /\ t.etag = NoEtag
    /\ \E i \in 1..Len(load_internal(disk)) :
          /\ load_internal(disk)[i].kind = "Create"
          /\ load_internal(disk)[i].task.uid = new_v4(1)
          /\ load_internal(disk)[i].task.href # EmptyStr
    /\ \E t \in held : t.etag = ServerEtag

\* get_tasks returned a task decoded from the server's answer, with the
\* etag and the href of the item
C33_WitnessFetched ==
    \E k \in 1..Len(hist) :
        /\ hist[k].fetched # <<>>
        /\ \E i \in 1..Len(hist[k].tasks) : hist[k].tasks[i].etag # NoEtag


\* C34: every task the parser or from_ics makes has a priority from 0 to
\* 9: a word !N sets the priority only when N is from 1 to 9, any other
\* !N stays in the summary and leaves the priority 0, and a PRIORITY line
\* with a value outside 0..9 never gives a priority above 9
C34_PriorityInRange ==
    /\ \A k \in 1..Len(item) : item[k].priority \in 0..9
    /\ \A k \in 1..Len(decoded) : decoded[k].priority \in 0..9
    /\ \A k \in 1..Len(reparsed) : reparsed[k].priority \in 0..9
    /\ \A k \in 1..Len(spawned) : spawned[k].priority \in 0..9
    /\ (FromParser /\ ipc = "item") =>
          /\ item[1].priority = IF \E i \in 1..Len(input) : input[i] = "!2"
                                THEN 2 ELSE 0
          /\ \A i \in 1..Len(input) :
                input[i] = "!12" =>
                    \E j \in 1..Len(item[1].summary) : item[1].summary[j] = "!12"


\* C35: within one run each action of the journal the run started from is
\* sent at most once and an Update gets at most one replacement Create, so
\* the run sends at most twice as many requests as that journal is long
\* (and so ends)
C35_RequestsBounded ==
    /\ \A a \in 1..Len(disk0) :
          Cardinality({ k \in 1..Len(sent) : sent[k].aid = a }) <= 1
    /\ Len(sent) <= 2 * Len(disk0)


C37_OfflineSyncLeavesJournal ==
    [][(pc = "idle" /\ pc' = "idle") =>
          /\ sent' = sent
          /\ server' = server
          /\ Len(disk') >= Len(disk)
          /\ SubSeq(disk', 1, Len(disk)) = disk
          /\ calls' = calls =>
                /\ disk' = disk
                /\ ret' = IF disk = <<>> THEN "Ok" ELSE "Offline"]_vars

\* sync_journal returned Offline on a queued Create, and an Update was queued
\* behind it afterwards
C37_Witness ==
    /\ pc = "idle"
    /\ ret = "Offline"
    /\ sent = <<>>
    /\ Len(disk) = 2
    /\ disk[1].kind = "Create"
    /\ disk[2].kind = "Update"

Kinds(q) == [i \in 1..Len(q) |-> q[i].kind]

\* the journal after the task in hand was toggled once (ipc = "toggled")
\* and twice, when a task that recurs is one for which recurs(t) holds
ToggleQueues(recurs(_)) ==
    /\ ipc = "toggled" =>
          LET t == item[1]
          IN  /\ t.status = "Completed"
              /\ t.calendar_href # LOCAL_CALENDAR_HREF =>
                    IF recurs(t)
                    THEN /\ Kinds(disk) = <<"Create", "Update">>
                         /\ spawned # <<>>
                         /\ disk[1].task = [spawned[1] EXCEPT
                               !.href = full_href(t.calendar_href, spawned[1].uid)]
                         /\ disk[2].task = t
                    ELSE /\ Kinds(disk) = <<"Update">>
                         /\ disk[1].task = t
    /\ ipc = "untoggled" =>
          LET t == item[1]
          IN  /\ t.status = "NeedsAction"
              /\ t.calendar_href # LOCAL_CALENDAR_HREF =>
                    /\ Kinds(disk) \in {<<"Update", "Update">>,
                                        <<"Create", "Update", "Update">>}
                    /\ disk[Len(disk)].task = t
                    /\ disk[Len(disk) - 1].task = [t EXCEPT !.status = "Completed"]

\* C38 as stated: toggle_task makes a task that is not Completed Completed
\* and a Completed one NeedsAction; completing a remote task that has an
\* rrule queues Create(next occurrence) and then Update(task), and
\* un-completing a task or completing one without an rrule queues
\* Update(task) alone
C38_ToggleQueuesCreateThenUpdate ==
    ToggleQueues(LAMBDA t : t.rrule # <<>>)

\* C38, amended: the Create is queued when respawn gives a next occurrence,
\* that is for a task with an rrule, a seed date (dtstart, else due) and a
\* rule that has a second occurrence; completing any other task queues
\* Update(task) alone
C38_ToggleQueuesCreateWhenRespawned ==
    ToggleQueues(LAMBDA t : /\ t.rrule # <<>>
                            /\ t.dtstart # <<>> \/ t.due # <<>>
                            /\ t.rrule[1] \in DOMAIN DaysToNext)

\* a fetched weekly task was completed: the journal holds the Create of the
\* next occurrence, then the Update of the completed task
C38_Witness ==
    /\ ipc = "toggled"
    /\ item[1].rrule = <<"FREQ=WEEKLY">>
    /\ item[1].status = "Completed"
    /\ Kinds(disk) = <<"Create", "Update">>
    /\ disk[1].task.uid = "u9"
    /\ disk[1].task.status = "NeedsAction"
    /\ disk[2].task.uid = "u1"

\* C39: the parent_uid and the dependencies of a task fetched from the server
\* are those of the RELATED-TO lines of its master VTODO; RELATED-TO lines in
\* a sibling component (a recurrence exception, a VEVENT) change neither
C39_RelationsFromMasterOnly ==
    (ipc = "item" /\ served # <<>>) =>
        LET master == ComponentAt(served, FirstOf(served))
            parents == ParentLines(master)
            depends == DependsOnLines(master)
        IN  /\ item[1].parent_uid =
                  (IF parents = <<>> THEN <<>> ELSE parents[Len(parents)].value)
            /\ Len(item[1].dependencies) = Len(depends)
            /\ \A k \in 1..Len(depends) :
                  depends[k].value = <<item[1].dependencies[k]>>

\* what apply_smart_input makes of the line on a task without contents
FromLineAlone == apply_smart_input(NewItem(item[1].uid), input, aliases)

\* C40: after apply_smart_input on a task in hand, priority, due, rrule,
\* categories, summary and estimated_duration are what the line and the alias
\* table give on their own, whatever the task held before; estimated_duration
\* is set only when the line has a valid ~duration token
C40_OutcomeFromInputOnly ==
    ipc = "retyped" =>
        /\ item[1].priority = FromLineAlone.priority
        /\ item[1].due = FromLineAlone.due
        /\ item[1].rrule = FromLineAlone.rrule
        /\ item[1].categories = FromLineAlone.categories
        /\ item[1].summary = FromLineAlone.summary
        /\ item[1].estimated_duration = FromLineAlone.estimated_duration

====
